---- MODULE Spec2Model ----
(***************************************************************************)
(* MultiDevice: the device state machine of MD_Device (src/MD_Device.py)   *)
(* together with the command registry MD_Commands / MD_Command_Str and the *)
(* connection MD_Connection (src/__init__.py).                             *)
(*                                                                         *)
(* Three threads of the host call into one device:                         *)
(*   "life"    the plugin's run()/stop(): set_runtime_data, start, stop    *)
(*   "item"    on-demand calls: send_command, read_all_commands            *)
(*   "cyclic"  the scheduler job: _read_cyclic_values                      *)
(*   "cyclic2" a second worker of the scheduler that fires the same job    *)
(* send_command is cut where another thread can get in between: after the  *)
(* alive test (l.165-171), after the payload was handed to the transport   *)
(* (l.173-194), and when the transport answers (l.194-211).                *)
(***************************************************************************)
EXTENDS Integers, Sequences, FiniteSets, TLC

VARIABLES
    alive,                  \* self.alive
    runtime_data_set,       \* self._runtime_data_set
    initial_values_read,    \* self._initial_values_read
    cyclic_update_active,   \* self._cyclic_update_active
    connected,              \* self._connection.connected
    data_received_callback, \* self._data_received_callback is set
    commands_read,          \* self._commands_read, in iteration order
    commands_initial,       \* self._commands_initial
    commands_cyclic,        \* self._commands_cyclic: <<[cmd, cycle, next]>> in iteration order
    scheduler,              \* the plugin's scheduler: cycle of the job <device>_cyclic, or NoJob
    now,                    \* time.time()
    outer,                  \* per thread: the operation it is in
    sc,                     \* per thread: its send_command call
    ev,                     \* what the last step did: calls made, value returned
    MD_standalone,          \* the module global MD_standalone
    plugin,                 \* self._plugin is set
    runtime,                \* the runtime data the host hands to set_runtime_data
    connection,             \* self._connection: NoConnection, or the n-th connection object built
    device_params,          \* self._plugin_params of the device
    applied                 \* the last call of a method of a command, of the registry or
                            \* of _get_connection on its own: its arguments and its result

vars == <<alive, runtime_data_set, initial_values_read, cyclic_update_active,
          connected, data_received_callback, commands_read, commands_initial,
          commands_cyclic, scheduler, now, outer, sc, ev, MD_standalone, plugin,
          runtime, connection, device_params, applied>>

----------------------------------------------------------------------------
(* Bounds *)

\* the clock runs from 0 to MaxTime
MaxTime == 2

\* at most MaxConnections connection objects are built for a device
MaxConnections == 2

----------------------------------------------------------------------------
(* Strings are sequences of tokens; a token is a literal, $C, $V or $P:key: *)

Lit(s) == [k |-> "lit", v |-> s]
TokC == [k |-> "C", v |-> ""]
TokV == [k |-> "V", v |-> ""]
TokP(key) == [k |-> "P", v |-> key]

\* Python's None for a value; a given value v is <<v>>
None == <<>>
Values == {None, <<42>>}

\* str(data) for the values of the model
Str(n) == IF n = 42 THEN "42" ELSE "0"

\* the plugin parameters the device was constructed with; the registry hands
\* its copy of them to the commands (kwargs['plugin']). The connection type is
\* configured, no port is.
plugin_params == [conn_type |-> <<Lit("net_tcp_cli")>>, host |-> <<Lit("h")>>]

\* self._connection = None
NoConnection == 0

\* self.device, the name of the device
device_name == "dev1"

\* the keys of the plugin parameters, src/__init__.py l.194-197
PLUGIN_ARG_CONNECTION == "conn_type"
PLUGIN_ARG_NET_PORT == "port"
PLUGIN_ARG_SERIAL_PORT == "serial"

\* the connection types, src/__init__.py l.203-209
CONN_NET_TCP_CLI == <<Lit("net_tcp_cli")>>
CONN_NET_TCP_SRV == <<Lit("net_tcp_srv")>>
CONN_NET_UDP_SRV == <<Lit("net_udp_srv")>>
CONN_SER_CLI == <<Lit("ser_cli")>>
CONN_SER_ASYNC == <<Lit("ser_async")>>
CONNECTION_TYPES == {CONN_NET_TCP_CLI, CONN_NET_TCP_SRV, CONN_NET_UDP_SRV,
                     CONN_SER_CLI, CONN_SER_ASYNC}

\* the request/reply network client of MD_Device._get_connection l.354
CONN_NET_TCP_REQ == <<Lit("net_tcp_req")>>

\* the kwargs a caller of update_device_params passes: none, a new host, or
\* a connection type that is none of CONNECTION_TYPES
NoKwargs == [k \in {} |-> None]
UpdateKwargs ==
    { NoKwargs,
      [host |-> <<Lit("h2")>>],
      [conn_type |-> <<Lit("bogus")>>] }

\* update_device_params l.296: {**self._plugin_params, **kwargs}
Merge(old, new) ==
    [k \in DOMAIN old \cup DOMAIN new |-> IF k \in DOMAIN new THEN new[k] ELSE old[k]]

\* _get_connection l.362: params[PLUGIN_ARG_CONNECTION] = conn_type
SetConnType(params, conn_type) ==
    [k \in DOMAIN params \cup {PLUGIN_ARG_CONNECTION} |->
        IF k = PLUGIN_ARG_CONNECTION THEN conn_type ELSE params[k]]

\* _get_connection l.343-378 on self._plugin_params = params: the connection
\* type chosen, the parameters after the call and whether the call raises.
\* With no type configured and none inferred, conn_type is None at l.364 and
\* conn_type.split raises AttributeError.
GetConnection(params) ==
    IF /\ PLUGIN_ARG_CONNECTION \in DOMAIN params
       /\ params[PLUGIN_ARG_CONNECTION] \in CONNECTION_TYPES
    THEN [raises |-> FALSE, conn_type |-> params[PLUGIN_ARG_CONNECTION], params |-> params]
    ELSE IF PLUGIN_ARG_NET_PORT \in DOMAIN params
    THEN [raises |-> FALSE, conn_type |-> CONN_NET_TCP_REQ,
          params |-> SetConnType(params, CONN_NET_TCP_REQ)]
    ELSE IF PLUGIN_ARG_SERIAL_PORT \in DOMAIN params
    THEN [raises |-> FALSE, conn_type |-> CONN_SER_CLI,
          params |-> SetConnType(params, CONN_SER_CLI)]
    ELSE [raises |-> TRUE, conn_type |-> None, params |-> params]

RECURSIVE Replace(_, _, _)
\* string.replace(old, new) on tokens: every token of kind old becomes new
Replace(string, old, new) ==
    IF string = <<>> THEN <<>>
    ELSE (IF Head(string).k = old THEN new ELSE <<Head(string)>>)
         \o Replace(Tail(string), old, new)

\* re.match('.*(\$P:([^:]+):).*', string)
HasP(string) == \E i \in DOMAIN string : string[i].k = "P"

\* repl_func: str(self._plugin_params.get(matchobj.group(2), '')), params
\* being the command's self._plugin_params
ReplFunc(tok, params) == IF tok.v \in DOMAIN params THEN params[tok.v] ELSE <<>>

RECURSIVE ReSub(_, _)
\* re.sub(regex, repl_func, string): one pass over the string
ReSub(string, params) ==
    IF string = <<>> THEN <<>>
    ELSE (IF Head(string).k = "P" THEN ReplFunc(Head(string), params) ELSE <<Head(string)>>)
         \o ReSub(Tail(string), params)

RECURSIVE SubstLoop(_, _, _)
\* while re.match(...): string = re.sub(regex, repl_func, string)
\* seen: the strings the loop has had at its test. The loop has no state but
\* the string, so it ends if it comes to a string without $P:key:, and never
\* ends if it comes to a string it has had before (ends = FALSE; string is
\* then the string that comes again).
SubstLoop(string, params, seen) ==
    IF ~HasP(string) THEN [ends |-> TRUE, string |-> string]
    ELSE IF string \in seen THEN [ends |-> FALSE, string |-> string]
    ELSE SubstLoop(ReSub(string, params), params, seen \cup {string})

\* the string after the loop
SubstP(string, params) == SubstLoop(string, params, {}).string

\* mutant of ParseStr: a string without $C is taken to be a path under the
\* opcode
ParseStr_UnderOpcode(string, data, opcode, params) ==
    LET s0 == IF \E i \in DOMAIN string : string[i].k = "C" THEN string
              ELSE opcode \o string
        s1 == Replace(s0, "C", opcode)
        s2 == SubstP(s1, params)
    IN  IF data # None THEN Replace(s2, "V", <<Lit(Str(data[1]))>>) ELSE s2

\* MD_Command_Str._parse_str of a command with the given opcode and
\* _plugin_params
ParseStr(string, data, opcode, params) ==
    LET s1 == Replace(string, "C", opcode)
        s2 == SubstP(s1, params)
    IN  IF data # None THEN Replace(s2, "V", <<Lit(Str(data[1]))>>) ELSE s2

\* whether _parse_str returns: it does unless its loop never ends
ParseStrReturns(string, opcode, params) ==
    SubstLoop(Replace(string, "C", opcode), params, {}).ends

\* MD_Commands._commands: the registry of the device. An absent or empty
\* read_cmd / write_cmd / opcode is <<>> (falsy in Python); params: the keys
\* of the command's params; read, write: the capability flags (False if not
\* configured).
KnownCommands == {"a", "b", "e", "p"}
commands ==
    [c \in KnownCommands |->
        CASE c = "a" -> [opcode |-> <<Lit("http://"), TokP("host"), Lit("/a")>>,
                         read_cmd |-> <<TokC>>, write_cmd |-> <<>>, params |-> <<>>,
                         read |-> TRUE, write |-> FALSE]
          [] c = "b" -> [opcode |-> <<Lit("http://host/set")>>,
                         read_cmd |-> <<TokC>>, write_cmd |-> <<TokC, Lit("/"), TokV>>,
                         params |-> <<>>, read |-> TRUE, write |-> TRUE]
          [] c = "e" -> [opcode |-> <<>>, read_cmd |-> <<>>, write_cmd |-> <<>>,
                         params |-> <<>>, read |-> FALSE, write |-> FALSE]
          [] c = "p" -> [opcode |-> <<Lit("http://host/p")>>,
                         read_cmd |-> <<TokC>>, write_cmd |-> <<>>,
                         params |-> <<"timeout">>, read |-> TRUE, write |-> FALSE]]

\* every command name a caller may pass; "x" is not in the registry
CommandNames == KnownCommands \cup {"x"}

\* mutant of CommandGetSendData: the read template is used whenever there is
\* one, a value given or not
CommandGetSendData_ReadFirst(c, data, params) ==
    IF c.read_cmd # <<>> THEN ParseStr(c.read_cmd, data, c.opcode, params)
    ELSE IF data # None /\ c.write_cmd # <<>>
    THEN ParseStr(c.write_cmd, data, c.opcode, params)
    ELSE c.opcode

\* MD_Command_Str.get_send_data: the payload of the data_dict
CommandGetSendData(c, data, params) ==
    IF data = None
    THEN IF c.read_cmd # <<>> THEN ParseStr(c.read_cmd, None, c.opcode, params)
         ELSE c.opcode
    ELSE IF c.write_cmd # <<>> THEN ParseStr(c.write_cmd, data, c.opcode, params)
         ELSE c.opcode

\* MD_Command_Str.get_send_data l.371-372, _parse_tree l.407: for each of the
\* params, issubclass(node, str) is called with a node that is no class and
\* raises TypeError
RenderRaises(c) == c.params # <<>>

\* MD_Commands.get_send_data: [found |-> FALSE] is the None the registry
\* returns for a name it does not know
GetSendData(command, data) ==
    IF command \in DOMAIN commands
    THEN [found |-> TRUE,
          payload |-> CommandGetSendData(commands[command], data, plugin_params)]
    ELSE [found |-> FALSE, payload |-> <<>>]

----------------------------------------------------------------------------
(* The runtime data of the host (MultiDevice._generate_runtime_data) *)

Entry(c, cy, nx) == [cmd |-> c, cycle |-> cy, next |-> nx]

\* the kwargs of set_runtime_data: the same objects at every call of one run;
\* callback: whether the host hands over a callback (TRUE) or None (FALSE)
HostRuntime ==
    { [read_commands    |-> <<"a", "b">>,
       cycle_commands   |-> <<Entry("a", 2, 0), Entry("b", 3, 0)>>,
       initial_commands |-> <<"a", "b">>,
       callback         |-> TRUE],
      [read_commands    |-> <<"x", "a">>,
       cycle_commands   |-> <<Entry("x", 2, 0), Entry("a", 2, 1)>>,
       initial_commands |-> <<"e", "a">>,
       callback         |-> TRUE],
      [read_commands    |-> <<>>,
       cycle_commands   |-> <<>>,
       initial_commands |-> <<>>,
       callback         |-> FALSE] }

\* the keys set_runtime_data reads, in the order it reads them (l.273-276)
RuntimeKeys == <<"read_commands", "cycle_commands", "initial_commands", "callback">>

----------------------------------------------------------------------------
(* The decisions of MD_Device, one operator per test or expression *)

\* mutant of NotActive: a send_command is refused while a cyclic run is active
NotActive_OrBusy(a) == ~a \/ cyclic_update_active

\* mutant of NotActive: the alive test is left out
NotActive_Never(a) == FALSE

\* send_command l.165: "if not self.alive"
NotActive(a) == ~a

\* mutant of AlreadyStarted: an alive device without a job is started again
AlreadyStarted_WithJob(a) == a /\ scheduler # <<>>

\* mutant of AlreadyStarted: start does not look at alive
AlreadyStarted_Never(a) == FALSE

\* start l.121: "if self.alive: return"
AlreadyStarted(a) == a

\* mutant of MayStart: start does not look at _runtime_data_set
MayStart_Always(rds) == TRUE

\* start l.123: "if self._runtime_data_set"
MayStart(rds) == rds

\* mutant of StartConnected: start goes on whether the open succeeded or not
StartConnected_Always(conn) == TRUE

\* start l.132: "if self._connection.connected"
StartConnected(conn) == conn

\* mutant of Busy: the lock is not looked at
Busy_Never(active) == FALSE

\* _read_cyclic_values l.435: "if self._cyclic_update_active"
Busy(active) == active

\* _read_cyclic_values l.449: "if self._commands_cyclic[cmd]['next'] <= currenttime"
Due(entry, currenttime) == entry.next <= currenttime

\* mutant of NextDue: the time is read again when send_command has returned
NextDue_AtReturn(entry, currenttime) == now + entry.cycle

\* mutant of NextDue: the next due time is counted from the old one
NextDue_FromOld(entry, currenttime) == entry.next + entry.cycle

\* _read_cyclic_values l.465: "currenttime + self._commands_cyclic[cmd]['cycle']"
NextDue(entry, currenttime) == currenttime + entry.cycle

\* mutant of Cancelled: only a disconnect cancels the run, a stop does not
Cancelled_OnlyDisconnect(a, conn) == ~conn

\* mutant of Cancelled: only a stop cancels the run, a disconnect does not
Cancelled_OnlyStop(a, conn) == ~a

\* _read_cyclic_values l.454-461: the run is cancelled before the next command
Cancelled(a, conn) == ~a \/ ~conn

\* MD_Connection.open l.876-880: connected becomes True if _open() succeeds
Open(conn, ok) == IF ok THEN TRUE ELSE conn

\* mutant of Close: connected is left as it is
Close_Keep(conn) == conn

\* MD_Connection.close l.882-885
Close(conn) == FALSE

\* mutant of ReadInitial: the latch is not looked at
ReadInitial_NoLatch(initial, read) == initial # <<>>

\* _read_initial_values l.420: "if self._commands_initial and
\* self._commands_initial != [] and not self._initial_values_read"
ReadInitial(initial, read) == initial # <<>> /\ ~read

\* mutant of Interrupted: a firing that returns from its loop clears the lock
Interrupted_Released(active) == FALSE

\* _read_cyclic_values l.454-461: the returns out of the loop do not assign
\* _cyclic_update_active
Interrupted(active) == active

\* mutant of Release: the lock is left as it is at the end of the loop
Release_Keep(active) == active

\* _read_cyclic_values l.468: "self._cyclic_update_active = False"
Release(active) == FALSE

\* mutant of OpenFailed: send_command goes on after an open that failed
OpenFailed_Never(conn) == FALSE

\* send_command l.175: "if not self._connection.connected", after the open
OpenFailed(conn) == ~conn

\* send_command l.169: "if not self._connection"
NoConnectionObject(conn) == conn = NoConnection

\* mutant of EmptyPayload: the payload is not tested
EmptyPayload_Never(payload) == FALSE

\* send_command l.185: "data_dict['payload'] is None or data_dict['payload'] == ''"
EmptyPayload(payload) == payload = <<>>

\* the kwargs a caller of set_runtime_data passes: all four keys, all but one
\* of them, or none
AllKeys == {RuntimeKeys[k] : k \in DOMAIN RuntimeKeys}
Kwargs == {AllKeys, {}} \cup {AllKeys \ {key} : key \in AllKeys}

\* set_runtime_data l.272-279: the number of keys assigned before the first
\* missing one raises KeyError (4: all were there)
RECURSIVE Assigned(_, _)
Assigned(keys, n) ==
    IF n < Len(RuntimeKeys) /\ RuntimeKeys[n + 1] \in keys
    THEN Assigned(keys, n + 1) ELSE n

\* set_runtime_data l.277: reached only if no key was missing
RuntimeComplete(keys) == Assigned(keys, 0) = Len(RuntimeKeys)

RECURSIVE DueCommands(_, _)
\* _read_cyclic_values l.445-450: todo
DueCommands(cyclic, currenttime) ==
    IF cyclic = <<>> THEN <<>>
    ELSE (IF Due(Head(cyclic), currenttime) THEN <<Head(cyclic).cmd>> ELSE <<>>)
         \o DueCommands(Tail(cyclic), currenttime)

\* _read_cyclic_values l.465: self._commands_cyclic[cmd]['next'] = ...
SetNext(cyclic, command, currenttime) ==
    [k \in DOMAIN cyclic |->
        IF cyclic[k].cmd = command
        THEN [cyclic[k] EXCEPT !.next = NextDue(cyclic[k], currenttime)]
        ELSE cyclic[k]]

RECURSIVE ShortestCycle(_, _)
\* _create_cyclic_scheduler l.398-402
ShortestCycle(cyclic, shortestcycle) ==
    IF cyclic = <<>> THEN shortestcycle
    ELSE ShortestCycle(Tail(cyclic),
            IF shortestcycle = -1 \/ Head(cyclic).cycle < shortestcycle
            THEN Head(cyclic).cycle ELSE shortestcycle)

\* mutant of WorkerCycle: the job runs at the shortest cycle itself
WorkerCycle_Whole(shortestcycle) == shortestcycle

\* _create_cyclic_scheduler l.408: int(shortestcycle / 2)
WorkerCycle(shortestcycle) == shortestcycle \div 2

\* _create_cyclic_scheduler l.390-413: the scheduler after the call.
\* The scheduler holds <<cycle>> for the job <device>_cyclic, <<>> for no job.
CreateCyclicScheduler(a, plg, cyclic, sched) ==
    IF ~a \/ ~plg THEN sched
    ELSE IF ShortestCycle(cyclic, -1) = -1 THEN sched
    \* l.411-413: a job of that name is removed before the job is added
    ELSE (IF sched # <<>> THEN <<>> ELSE sched)
         \o <<WorkerCycle(ShortestCycle(cyclic, -1))>>

\* start l.134-135: "if not MD_standalone: self._create_cyclic_scheduler()"
StartScheduler(standalone, a, plg, cyclic, sched) ==
    IF standalone THEN sched ELSE CreateCyclicScheduler(a, plg, cyclic, sched)

\* stop l.140-141
StopScheduler(plg, sched) == IF plg /\ sched # <<>> THEN <<>> ELSE sched

----------------------------------------------------------------------------
(* Threads and their frames *)

Threads == {"life", "item", "cyclic", "cyclic2"}

\* a thread that is in no operation
\* list: what the loop runs over, i: the next element, sent: the commands
\* send_command was called with so far; for _read_cyclic_values currenttime
\* (l.443) and before: _commands_cyclic as the firing found it
IdleFrame == [pc |-> "idle", list |-> <<>>, i |-> 1, sent |-> <<>>,
              currenttime |-> 0, before |-> <<>>]

\* a thread that is in no send_command
IdleCall == [pc |-> "idle", command |-> "", value |-> None]

\* the operations that call send_command in a loop over frame.list
Loops == {"start", "read_all_commands", "_read_cyclic_values"}

\* ev: in the last step, thread t was in operation op, at
\*   step "enter"    the operation was called
\*        "call"     send_command was called (l.155-171)
\*        "connect"  send_command l.173-194
\*        "answer"   send_command l.194-211, the transport's outcome was `outcome`
\*        "cancel"   _read_cyclic_values l.454-461
\*        "end"      the loop of the operation was through
\* and made the calls `calls`, in this order, on the connection, the scheduler
\* and the callback; ret is what a send_command(command, value) that ended in
\* this step returned ("True", "False", or "raise": it raised), exit is how the
\* operation itself ended in this step ("return", "raise", "cancelled"), "-"
\* if it goes on; keys: the kwargs of set_runtime_data; payload: the payload
\* handed to connection.send; args: the arguments of the callback, or of the
\* constructor of the connection, if the step called one; kwargs: the kwargs
\* of update_device_params; conn: the connection object that open, send or
\* close was called on.
Event(op, step, t, command, ret, calls, exit) ==
    [op |-> op, step |-> step, t |-> t, command |-> command, value |-> None,
     keys |-> {}, outcome |-> "-", ret |-> ret, calls |-> calls, exit |-> exit,
     payload |-> <<>>, args |-> <<>>, kwargs |-> NoKwargs, conn |-> NoConnection]

\* no method was called on its own yet
NotApplied == [fn |-> "-"]

\* the fields of a device after __init__, l.78-100
Constructed ==
    /\ alive = FALSE
    /\ runtime_data_set = FALSE
    /\ initial_values_read = FALSE
    /\ cyclic_update_active = FALSE
    /\ connected = FALSE
    /\ data_received_callback = FALSE
    /\ commands_read = <<>>
    /\ commands_initial = <<>>
    /\ commands_cyclic = <<>>
    /\ scheduler = <<>>
    /\ now = 0
    /\ outer = [t \in Threads |-> IdleFrame]
    /\ sc = [t \in Threads |-> IdleCall]
    /\ ev = Event("__init__", "enter", "life", "", "-", <<>>, "return")
    /\ MD_standalone \in BOOLEAN
    /\ plugin \in BOOLEAN
    /\ runtime \in HostRuntime
    /\ device_params = plugin_params
    /\ applied = NotApplied

\* __init__ got a connection object, l.111-118
Init == Constructed /\ connection = 1

\* __init__ left the device disabled: no connection object, l.106-114
InitDisabled == Constructed /\ connection = NoConnection

\* what never changes after construction
EnvUnchanged == UNCHANGED <<MD_standalone, plugin, runtime>>

\* what only update_device_params changes
ParamsUnchanged == UNCHANGED <<connection, device_params, applied>>

----------------------------------------------------------------------------
(* send_command, l.155-211 *)

\* send_command(command, value) has ended for thread t, whose operation is
\* frame o: it returned result ("True", "False") or raised ("raise"). The
\* operation goes on:
\*   send_command (called by the host)  returns to the host
\*   start, read_all_commands           next command (l.422-424, l.248-249)
\*   _read_cyclic_values                l.465-466, then the next command
\* An exception ends the operation at once.
Returned(t, o, e, result, calls) ==
    /\ sc' = [sc EXCEPT ![t] = IdleCall]
    /\ IF result = "raise"
       THEN /\ outer' = [outer EXCEPT ![t] = IdleFrame]
            /\ UNCHANGED commands_cyclic
            /\ ev' = [e EXCEPT !.ret = result, !.calls = calls, !.exit = "raise"]
       ELSE IF o.pc = "send_command"
       THEN /\ outer' = [outer EXCEPT ![t] = IdleFrame]
            /\ UNCHANGED commands_cyclic
            /\ ev' = [e EXCEPT !.ret = result, !.calls = calls, !.exit = "return"]
       ELSE IF o.pc = "_read_cyclic_values"
       THEN /\ outer' = [outer EXCEPT ![t] = [o EXCEPT !.i = o.i + 1]]
            /\ commands_cyclic' = SetNext(commands_cyclic, e.command, o.currenttime)
            /\ ev' = [e EXCEPT !.ret = result, !.calls = calls]
       ELSE /\ outer' = [outer EXCEPT ![t] = [o EXCEPT !.i = o.i + 1]]
            /\ UNCHANGED commands_cyclic
            /\ ev' = [e EXCEPT !.ret = result, !.calls = calls]

\* the event of a step of send_command(command, value) in operation o
CallEvent(t, o, step, command, value) ==
    [Event(o.pc, step, t, command, "-", <<>>, "-") EXCEPT !.value = value]

\* l.155-171: thread t, in operation o, calls send_command(command, value)
Call(t, o, command, value) ==
    LET o1 == [o EXCEPT !.sent = Append(o.sent, command)]
    IN  IF NotActive(alive) \/ NoConnectionObject(connection)
        THEN Returned(t, o1, CallEvent(t, o, "call", command, value), "False", <<>>)
        ELSE /\ outer' = [outer EXCEPT ![t] = o1]
             /\ sc' = [sc EXCEPT ![t] = [pc |-> "connect", command |-> command,
                                         value |-> value]]
             /\ ev' = CallEvent(t, o, "call", command, value)
             /\ UNCHANGED commands_cyclic

\* l.173-194: open the connection if needed, build the payload and hand it to
\* connection.send; ok: whether _open() succeeds
SendConnect(t, ok) ==
    /\ sc[t].pc = "connect"
    /\ LET c     == sc[t]
           e     == [CallEvent(t, outer[t], "connect", c.command, c.value)
                        EXCEPT !.conn = connection]
           calls == IF connected THEN <<>> ELSE <<"open">>
           conn  == IF connected THEN connected ELSE Open(connected, ok)
           data  == GetSendData(c.command, c.value)
       IN  /\ connected' = conn
           /\ IF OpenFailed(conn)
              THEN Returned(t, outer[t], e, "False", calls)
              ELSE IF data.found /\ RenderRaises(commands[c.command])
              \* l.181-183: get_send_data raised
              THEN Returned(t, outer[t], e, "False", calls)
              ELSE IF ~data.found
              \* l.185: data_dict is None, data_dict['payload'] raises TypeError
              THEN Returned(t, outer[t], e, "raise", calls)
              ELSE IF EmptyPayload(data.payload)
              THEN Returned(t, outer[t], e, "False", calls)
              ELSE /\ sc' = [sc EXCEPT ![t].pc = "sending"]
                   /\ ev' = [e EXCEPT !.calls = calls \o <<"send">>,
                                      !.payload = data.payload]
                   /\ UNCHANGED <<outer, commands_cyclic>>
    /\ UNCHANGED <<alive, runtime_data_set, initial_values_read,
                   cyclic_update_active, data_received_callback, commands_read,
                   commands_initial, scheduler, now>>
    /\ EnvUnchanged
    /\ ParamsUnchanged

\* what connection.send and the decoding of its result can do:
\*   "raise"        connection.send raises
\*   "none"         it returns None (or another falsy result)
\*   "undecodable"  it returns a result, get_shng_data raises
\*   "reply"        it returns a result that is decoded
\*   "reply_callback_raises"  as "reply", and the callback of the host raises
Outcomes == {"raise", "none", "undecodable", "reply", "reply_callback_raises"}

\* the response of the device in outcome "reply": raw data, not empty
Response == "r"

\* the get_shng_data of the command's datatype (DT_raw, the default dev_type):
\* the raw data as a value
DTGetShngData(data) == <<data>>

\* MD_Commands.get_shng_data: None for a name the registry does not know
GetShngData(command, data) ==
    IF command \in DOMAIN commands THEN DTGetShngData(data) ELSE None

\* l.208, l.240: self._data_received_callback(self.device, command, value)
CallbackArgs(command, value) == <<device_name, command, value>>

\* mutant of Answer: the result is not tested before it is decoded (l.199)
Answer_NoResultTest(outcome, callback) ==
    CASE outcome = "raise"       -> [ret |-> "False", calls |-> <<>>]
      [] outcome = "none"        ->
            IF callback THEN [ret |-> "True", calls |-> <<"callback">>]
            ELSE [ret |-> "True", calls |-> <<>>]
      [] outcome = "undecodable" -> [ret |-> "True", calls |-> <<>>]
      [] outcome = "reply"       ->
            IF callback THEN [ret |-> "True", calls |-> <<"callback">>]
            ELSE [ret |-> "True", calls |-> <<>>]
      [] outcome = "reply_callback_raises" ->
            IF callback THEN [ret |-> "raise", calls |-> <<"callback">>]
            ELSE [ret |-> "True", calls |-> <<>>]

\* mutant of Answer: connection.send is called outside the try
Answer_Unguarded(outcome, callback) ==
    CASE outcome = "raise"       -> [ret |-> "raise", calls |-> <<>>]
      [] outcome = "none"        -> [ret |-> "True", calls |-> <<>>]
      [] outcome = "undecodable" -> [ret |-> "True", calls |-> <<>>]
      [] outcome = "reply"       ->
            IF callback THEN [ret |-> "True", calls |-> <<"callback">>]
            ELSE [ret |-> "True", calls |-> <<>>]
      [] outcome = "reply_callback_raises" ->
            IF callback THEN [ret |-> "raise", calls |-> <<"callback">>]
            ELSE [ret |-> "True", calls |-> <<>>]

\* mutant of Answer: get_shng_data is called outside the try
Answer_DecodeUnguarded(outcome, callback) ==
    CASE outcome = "raise"       -> [ret |-> "False", calls |-> <<>>]
      [] outcome = "none"        -> [ret |-> "True", calls |-> <<>>]
      [] outcome = "undecodable" -> [ret |-> "raise", calls |-> <<>>]
      [] outcome = "reply"       ->
            IF callback THEN [ret |-> "True", calls |-> <<"callback">>]
            ELSE [ret |-> "True", calls |-> <<>>]
      [] outcome = "reply_callback_raises" ->
            IF callback THEN [ret |-> "raise", calls |-> <<"callback">>]
            ELSE [ret |-> "True", calls |-> <<>>]

\* mutant of Answer: an exception of the callback is caught by send_command
Answer_CallbackCaught(outcome, callback) ==
    CASE outcome = "raise"       -> [ret |-> "False", calls |-> <<>>]
      [] outcome = "none"        -> [ret |-> "True", calls |-> <<>>]
      [] outcome = "undecodable" -> [ret |-> "True", calls |-> <<>>]
      [] OTHER -> IF callback THEN [ret |-> "True", calls |-> <<"callback">>]
                  ELSE [ret |-> "True", calls |-> <<>>]

\* l.193-211: what send_command returns and whom it calls, given the outcome
\* and whether _data_received_callback is set
Answer(outcome, callback) ==
    CASE outcome = "raise"       -> [ret |-> "False", calls |-> <<>>]
      [] outcome = "none"        -> [ret |-> "True", calls |-> <<>>]
      [] outcome = "undecodable" -> [ret |-> "True", calls |-> <<>>]
      [] outcome = "reply"       ->
            IF callback THEN [ret |-> "True", calls |-> <<"callback">>]
            ELSE [ret |-> "True", calls |-> <<>>]
      [] outcome = "reply_callback_raises" ->
            IF callback THEN [ret |-> "raise", calls |-> <<"callback">>]
            ELSE [ret |-> "True", calls |-> <<>>]

\* l.194-211: connection.send returns or raises
SendReturn(t, outcome) ==
    /\ sc[t].pc = "sending"
    /\ LET c == sc[t]
           e == [CallEvent(t, outer[t], "answer", c.command, c.value)
                    EXCEPT !.outcome = outcome]
           a == Answer(outcome, data_received_callback)
           \* l.202, l.208: the value the callback is called with
           args == IF a.calls # <<>>
                   THEN CallbackArgs(c.command, GetShngData(c.command, Response))
                   ELSE <<>>
       IN  Returned(t, outer[t], [e EXCEPT !.args = args], a.ret, a.calls)
    /\ UNCHANGED <<alive, runtime_data_set, initial_values_read,
                   cyclic_update_active, connected, data_received_callback,
                   commands_read, commands_initial, scheduler, now>>
    /\ EnvUnchanged
    /\ ParamsUnchanged

\* the host calls send_command(command, value), l.155
SendCommand(command, value) ==
    /\ outer["item"].pc = "idle"
    /\ Call("item", [IdleFrame EXCEPT !.pc = "send_command"], command, value)
    /\ UNCHANGED <<alive, runtime_data_set, initial_values_read,
                   cyclic_update_active, connected, data_received_callback,
                   commands_read, commands_initial, scheduler, now>>
    /\ EnvUnchanged
    /\ ParamsUnchanged

----------------------------------------------------------------------------
(* set_runtime_data, start, stop: the "life" thread *)

\* set_runtime_data(**kwargs), l.268-279; keys: the keys of kwargs.
\* The assignments before the first missing key have happened when the
\* KeyError is caught.
SetRuntimeData(keys) ==
    /\ outer["life"].pc = "idle"
    /\ LET n == Assigned(keys, 0)
       IN  /\ commands_read' = IF n >= 1 THEN runtime.read_commands ELSE commands_read
           \* the host hands over the same mapping object at every call
           /\ commands_cyclic' = IF n >= 2 /\ commands_cyclic = <<>>
                                 THEN runtime.cycle_commands ELSE commands_cyclic
           /\ commands_initial' = IF n >= 3 THEN runtime.initial_commands
                                  ELSE commands_initial
           /\ data_received_callback' = IF n >= 4 THEN runtime.callback
                                        ELSE data_received_callback
           /\ runtime_data_set' = IF RuntimeComplete(keys) THEN TRUE ELSE runtime_data_set
    /\ ev' = [Event("set_runtime_data", "enter", "life", "", "-", <<>>, "return")
                EXCEPT !.keys = keys]
    /\ UNCHANGED <<alive, initial_values_read, cyclic_update_active, connected,
                   scheduler, now, outer, sc>>
    /\ EnvUnchanged
    /\ ParamsUnchanged

\* start(), l.120-135, up to the first initial command; ok: whether _open() succeeds
Start(ok) ==
    /\ outer["life"].pc = "idle"
    /\ IF AlreadyStarted(alive) \/ ~MayStart(runtime_data_set)
       THEN /\ ev' = Event("start", "enter", "life", "", "-", <<>>, "return")
            /\ UNCHANGED <<alive, connected, outer, scheduler>>
       ELSE IF connection = NoConnection
       \* l.130: self._connection is None, "self._connection.open" raises
       \* AttributeError
       THEN /\ alive' = TRUE
            /\ ev' = Event("start", "enter", "life", "", "-", <<>>, "raise")
            /\ UNCHANGED <<connected, outer, scheduler>>
       ELSE LET conn == Open(connected, ok)
            IN  /\ alive' = TRUE
                /\ connected' = conn
                /\ IF ~StartConnected(conn)
                   THEN /\ ev' = [Event("start", "enter", "life", "", "-",
                                         <<"open">>, "return")
                                        EXCEPT !.conn = connection]
                        /\ UNCHANGED <<outer, scheduler>>
                   ELSE IF ReadInitial(commands_initial, initial_values_read)
                   \* _read_initial_values l.420-424
                   THEN /\ outer' = [outer EXCEPT !["life"] =
                                [IdleFrame EXCEPT !.pc = "start",
                                                  !.list = commands_initial]]
                        /\ ev' = [Event("start", "enter", "life", "", "-",
                                         <<"open">>, "-")
                                        EXCEPT !.conn = connection]
                        /\ UNCHANGED scheduler
                   ELSE /\ scheduler' = StartScheduler(MD_standalone, TRUE, plugin,
                                                       commands_cyclic, scheduler)
                        /\ ev' = [Event("start", "enter", "life", "", "-",
                                   <<"open">> \o (IF scheduler' # scheduler
                                                  THEN <<"scheduler_add">> ELSE <<>>),
                                   "return")
                                        EXCEPT !.conn = connection]
                        /\ UNCHANGED outer
    /\ UNCHANGED <<runtime_data_set, initial_values_read, cyclic_update_active,
                   data_received_callback, commands_read, commands_initial,
                   commands_cyclic, now, sc>>
    /\ EnvUnchanged
    /\ ParamsUnchanged

\* stop(), l.137-142
Stop ==
    /\ outer["life"].pc = "idle"
    /\ alive' = FALSE
    /\ scheduler' = StopScheduler(plugin, scheduler)
    /\ IF connection = NoConnection
       \* l.142: self._connection is None, "self._connection.close" raises
       \* AttributeError
       THEN /\ UNCHANGED connected
            /\ ev' = Event("stop", "enter", "life", "", "-",
                       IF scheduler' # scheduler THEN <<"scheduler_remove">> ELSE <<>>,
                       "raise")
       ELSE /\ connected' = Close(connected)
            /\ ev' = [Event("stop", "enter", "life", "", "-",
                       (IF scheduler' # scheduler THEN <<"scheduler_remove">> ELSE <<>>)
                       \o <<"close">>, "return")
                            EXCEPT !.conn = connection]
    /\ UNCHANGED <<runtime_data_set, initial_values_read, cyclic_update_active,
                   data_received_callback, commands_read, commands_initial,
                   commands_cyclic, now, outer, sc>>
    /\ EnvUnchanged
    /\ ParamsUnchanged

----------------------------------------------------------------------------
(* on_data_received, l.213-242: called by the connection, on its own thread *)

\* the command on_data_received is called with: None or a name, known to
\* the registry or not
ReceivedFor == {None, <<"a">>, <<"x">>}

\* what get_command_from_reply(data) can return: None, or the name of a
\* command
Identified == {None, <<"a">>}

\* what the decoding of the data and the callback can do, l.233-242
Decodings == {"undecodable", "reply", "reply_callback_raises"}

\* mutant of Dispatch: the callback is called on an alive device only
Dispatch_WhenAlive(outcome, callback) ==
    CASE outcome = "undecodable" -> [exit |-> "return", calls |-> <<>>]
      [] outcome = "reply"       ->
            IF callback /\ alive THEN [exit |-> "return", calls |-> <<"callback">>]
            ELSE [exit |-> "return", calls |-> <<>>]
      [] outcome = "reply_callback_raises" ->
            IF callback /\ alive THEN [exit |-> "raise", calls |-> <<"callback">>]
            ELSE [exit |-> "return", calls |-> <<>>]

\* mutant of Dispatch: get_shng_data is called outside the try
Dispatch_Unguarded(outcome, callback) ==
    CASE outcome = "undecodable" -> [exit |-> "raise", calls |-> <<>>]
      [] outcome = "reply"       ->
            IF callback THEN [exit |-> "return", calls |-> <<"callback">>]
            ELSE [exit |-> "return", calls |-> <<>>]
      [] outcome = "reply_callback_raises" ->
            IF callback THEN [exit |-> "raise", calls |-> <<"callback">>]
            ELSE [exit |-> "return", calls |-> <<>>]

\* l.233-242: how on_data_received ends and whom it calls, given what the
\* decoding does and whether _data_received_callback is set
Dispatch(outcome, callback) ==
    CASE outcome = "undecodable" -> [exit |-> "return", calls |-> <<>>]
      [] outcome = "reply"       ->
            IF callback THEN [exit |-> "return", calls |-> <<"callback">>]
            ELSE [exit |-> "return", calls |-> <<>>]
      [] outcome = "reply_callback_raises" ->
            IF callback THEN [exit |-> "raise", calls |-> <<"callback">>]
            ELSE [exit |-> "return", calls |-> <<>>]

\* on_data_received(command, Response); identified: what the registry makes
\* of the data when it is asked (l.228), outcome: what the decoding does.
\* ev.value is the command given, ev.command the name that is decoded for.
\* (identified and outcome are drawn only where the code looks at them.)
OnDataReceived(command, identified, outcome) ==
    /\ command # None => identified = None
    /\ (command = None /\ identified = None) => outcome = "reply"
    /\ LET asked == IF command = None THEN <<"get_command_from_reply">> ELSE <<>>
           cmd   == IF command = None THEN identified ELSE command
           e     == [Event("on_data_received", "data", "connection", "", "-",
                           asked, "return") EXCEPT !.value = command]
           d     == Dispatch(outcome, data_received_callback)
       IN  IF cmd = None
           \* l.229-231: "if not command: return"
           THEN ev' = e
           ELSE ev' = [e EXCEPT !.command = cmd[1],
                                !.outcome = outcome,
                                !.exit = d.exit,
                                !.calls = asked \o <<"get_shng_data">> \o d.calls,
                                !.args = IF d.calls # <<>>
                                         THEN CallbackArgs(cmd[1],
                                                GetShngData(cmd[1], Response))
                                         ELSE <<>>]
    /\ UNCHANGED <<alive, runtime_data_set, initial_values_read,
                   cyclic_update_active, connected, data_received_callback,
                   commands_read, commands_initial, commands_cyclic, scheduler,
                   now, outer, sc>>
    /\ EnvUnchanged
    /\ ParamsUnchanged

\* mutant of UpdateRefused: update_device_params does not look at alive
UpdateRefused_Never(a) == FALSE

\* update_device_params l.287: "if self.alive"
UpdateRefused(a) == a

\* update_device_params(**kwargs), l.281-302. The connection object that
\* _get_connection builds is a new one, not connected (MD_Connection.__init__
\* l.865); nothing is called on the object it replaces. self._commands is not
\* assigned: the registry and its commands keep the parameters they were
\* constructed with (plugin_params).
UpdateDeviceParams(kwargs) ==
    /\ outer["life"].pc = "idle"
    /\ connection < MaxConnections
    /\ LET e == [Event("update_device_params", "enter", "life", "", "-", <<>>, "return")
                    EXCEPT !.kwargs = kwargs]
       IN  IF UpdateRefused(alive) \/ DOMAIN kwargs = {}
           THEN /\ ev' = e
                /\ UNCHANGED <<connection, device_params, connected>>
           ELSE LET g == GetConnection(Merge(device_params, kwargs))
                IN  /\ device_params' = g.params
                    /\ IF g.raises
                       \* l.364 raised: l.302 does not assign
                       THEN /\ ev' = [e EXCEPT !.exit = "raise"]
                            /\ UNCHANGED <<connection, connected>>
                       ELSE /\ connection' = connection + 1
                            /\ connected' = FALSE
                            /\ ev' = [e EXCEPT !.calls = <<"Connection">>,
                                               !.args = g.params]
    /\ UNCHANGED <<alive, runtime_data_set, initial_values_read,
                   cyclic_update_active, data_received_callback, commands_read,
                   commands_initial, commands_cyclic, scheduler, now, outer, sc,
                   applied>>
    /\ EnvUnchanged

----------------------------------------------------------------------------
(* read_all_commands and _read_cyclic_values *)

\* read_all_commands(), l.244-249: the loop starts over the current _commands_read
ReadAllCommands ==
    /\ outer["item"].pc = "idle"
    /\ outer' = [outer EXCEPT !["item"] =
            [IdleFrame EXCEPT !.pc = "read_all_commands", !.list = commands_read]]
    /\ ev' = Event("read_all_commands", "enter", "item", "", "-", <<>>, "-")
    /\ UNCHANGED <<alive, runtime_data_set, initial_values_read,
                   cyclic_update_active, connected, data_received_callback,
                   commands_read, commands_initial, commands_cyclic, scheduler,
                   now, sc>>
    /\ EnvUnchanged
    /\ ParamsUnchanged

\* the scheduler fires the job: _read_cyclic_values(), l.430-450
ReadCyclicValues ==
    /\ scheduler # <<>>
    /\ outer["cyclic"].pc = "idle"
    /\ IF Busy(cyclic_update_active)
       THEN /\ ev' = Event("_read_cyclic_values", "enter", "cyclic", "", "-", <<>>, "return")
            /\ UNCHANGED <<cyclic_update_active, outer>>
       ELSE /\ cyclic_update_active' = TRUE
            /\ outer' = [outer EXCEPT !["cyclic"] =
                    [pc |-> "_read_cyclic_values",
                     list |-> DueCommands(commands_cyclic, now),
                     i |-> 1, sent |-> <<>>, currenttime |-> now,
                     before |-> commands_cyclic]]
            /\ ev' = Event("_read_cyclic_values", "enter", "cyclic", "", "-", <<>>, "-")
    /\ UNCHANGED <<alive, runtime_data_set, initial_values_read, connected,
                   data_received_callback, commands_read, commands_initial,
                   commands_cyclic, scheduler, now, sc>>
    /\ EnvUnchanged
    /\ ParamsUnchanged

\* the body of the loop of thread t's operation: the next command is sent,
\* l.422-424, l.248-249, l.452-464
LoopCall(t) ==
    /\ outer[t].pc \in Loops
    /\ sc[t].pc = "idle"
    /\ outer[t].i <= Len(outer[t].list)
    /\ IF outer[t].pc = "_read_cyclic_values" /\ Cancelled(alive, connected)
       \* l.454-461: return, the lock stays set
       THEN /\ outer' = [outer EXCEPT ![t] = IdleFrame]
            /\ ev' = Event(outer[t].pc, "cancel", t, outer[t].list[outer[t].i],
                           "-", <<>>, "cancelled")
            /\ cyclic_update_active' = Interrupted(cyclic_update_active)
            /\ UNCHANGED <<sc, commands_cyclic>>
       ELSE /\ Call(t, outer[t], outer[t].list[outer[t].i], None)
            /\ UNCHANGED cyclic_update_active
    /\ UNCHANGED <<alive, runtime_data_set, initial_values_read,
                   connected, data_received_callback,
                   commands_read, commands_initial, scheduler, now>>
    /\ EnvUnchanged
    /\ ParamsUnchanged

\* the loop of thread t's operation is through: l.425 and l.134-135 for
\* start, l.468 for _read_cyclic_values
LoopEnd(t) ==
    /\ outer[t].pc \in Loops
    /\ sc[t].pc = "idle"
    /\ outer[t].i > Len(outer[t].list)
    /\ outer' = [outer EXCEPT ![t] = IdleFrame]
    /\ initial_values_read' = IF outer[t].pc = "start" THEN TRUE
                              ELSE initial_values_read
    /\ scheduler' = IF outer[t].pc = "start"
                    THEN StartScheduler(MD_standalone, alive, plugin,
                                        commands_cyclic, scheduler)
                    ELSE scheduler
    /\ cyclic_update_active' = IF outer[t].pc = "_read_cyclic_values"
                               THEN Release(cyclic_update_active)
                               ELSE cyclic_update_active
    /\ ev' = Event(outer[t].pc, "end", t, "", "-",
                   IF scheduler' # scheduler THEN <<"scheduler_add">> ELSE <<>>,
                   "return")
    /\ UNCHANGED <<alive, runtime_data_set, connected, data_received_callback,
                   commands_read, commands_initial, commands_cyclic, now, sc>>
    /\ EnvUnchanged
    /\ ParamsUnchanged

\* time passes
Tick ==
    /\ now < MaxTime
    /\ now' = now + 1
    /\ ev' = Event("tick", "enter", "life", "", "-", <<>>, "-")
    /\ UNCHANGED <<alive, runtime_data_set, initial_values_read,
                   cyclic_update_active, connected, data_received_callback,
                   commands_read, commands_initial, commands_cyclic, scheduler,
                   outer, sc>>
    /\ EnvUnchanged
    /\ ParamsUnchanged

Next ==
    \/ \E keys \in Kwargs : SetRuntimeData(keys)
    \/ \E ok \in BOOLEAN : Start(ok)
    \/ Stop
    \/ \E command \in CommandNames, value \in Values : SendCommand(command, value)
    \/ ReadAllCommands
    \/ ReadCyclicValues
    \/ \E t \in Threads : LoopCall(t)
    \/ \E t \in Threads : LoopEnd(t)
    \/ \E t \in Threads, ok \in BOOLEAN : SendConnect(t, ok)
    \/ \E t \in Threads, outcome \in Outcomes : SendReturn(t, outcome)
    \/ Tick

Spec == Init /\ [][Next]_vars

\* what can happen to a disabled device: no send_command of it gets past
\* l.171, and no job is ever registered for it
NextDisabled ==
    \/ \E keys \in Kwargs : SetRuntimeData(keys)
    \/ \E ok \in BOOLEAN : Start(ok)
    \/ Stop
    \/ \E command \in CommandNames, value \in Values : SendCommand(command, value)
    \/ ReadAllCommands
    \/ LoopCall("item")
    \/ LoopEnd("item")

SpecDisabled == InitDisabled /\ [][NextDisabled]_vars

\* a device that runs standalone, so without a cyclic job, whose parameters
\* are updated and whose connection pushes data to it
NextParams ==
    \/ \E keys \in Kwargs : SetRuntimeData(keys)
    \/ \E ok \in BOOLEAN : Start(ok)
    \/ Stop
    \/ \E kwargs \in UpdateKwargs : UpdateDeviceParams(kwargs)
    \/ \E command \in ReceivedFor, identified \in Identified, outcome \in Decodings :
            OnDataReceived(command, identified, outcome)
    \/ \E command \in CommandNames, value \in Values : SendCommand(command, value)
    \/ ReadAllCommands
    \/ \E t \in Threads : LoopCall(t)
    \/ \E t \in Threads : LoopEnd(t)
    \/ \E t \in Threads, ok \in BOOLEAN : SendConnect(t, ok)
    \/ \E t \in Threads, outcome \in Outcomes : SendReturn(t, outcome)

InitParams == Init /\ MD_standalone

SpecParams == InitParams /\ [][NextParams]_vars

\* a device of a plugin with a cyclic job, with all the operations of the
\* device: the job fires while the parameters are updated and the connection
\* pushes data
NextLock ==
    \/ SetRuntimeData(AllKeys)
    \/ \E ok \in BOOLEAN : Start(ok)
    \/ Stop
    \/ UpdateDeviceParams([host |-> <<Lit("h2")>>])
    \/ \E outcome \in {"reply", "reply_callback_raises"} :
            OnDataReceived(<<"a">>, None, outcome)
    \/ \E command \in {"a", "x"} : SendCommand(command, None)
    \/ ReadAllCommands
    \/ ReadCyclicValues
    \/ \E t \in Threads : LoopCall(t)
    \/ \E t \in Threads : LoopEnd(t)
    \/ \E t \in Threads, ok \in BOOLEAN : SendConnect(t, ok)
    \/ \E t \in Threads, outcome \in {"none", "reply", "reply_callback_raises"} :
            SendReturn(t, outcome)
    \/ Tick

\* the cyclic commands of the device are x, which the registry does not
\* know, and a
InitLock ==
    /\ Init /\ ~MD_standalone /\ plugin
    /\ runtime.cycle_commands = <<Entry("x", 2, 0), Entry("a", 2, 1)>>

SpecLock == InitLock /\ [][NextLock]_vars

----------------------------------------------------------------------------
(* Two workers of the scheduler fire the job of one device *)

FiringThreads == {"cyclic", "cyclic2"}

\* _read_cyclic_values l.435-439 in thread t: the test of the lock. A thread
\* that found the lock cleared is at pc "lock", before l.442.
ReadCyclicValuesTest(t) ==
    /\ scheduler # <<>>
    /\ outer[t].pc = "idle"
    /\ IF Busy(cyclic_update_active)
       THEN /\ ev' = Event("_read_cyclic_values", "enter", t, "", "-", <<>>, "return")
            /\ UNCHANGED outer
       ELSE /\ outer' = [outer EXCEPT ![t] = [IdleFrame EXCEPT !.pc = "lock"]]
            /\ ev' = Event("_read_cyclic_values", "enter", t, "", "-", <<>>, "-")
    /\ UNCHANGED <<alive, runtime_data_set, initial_values_read,
                   cyclic_update_active, connected, data_received_callback,
                   commands_read, commands_initial, commands_cyclic, scheduler,
                   now, sc>>
    /\ EnvUnchanged
    /\ ParamsUnchanged

\* _read_cyclic_values l.442-450 in thread t: the lock is set, todo is built
ReadCyclicValuesSet(t) ==
    /\ outer[t].pc = "lock"
    /\ cyclic_update_active' = TRUE
    /\ outer' = [outer EXCEPT ![t] =
            [pc |-> "_read_cyclic_values",
             list |-> DueCommands(commands_cyclic, now),
             i |-> 1, sent |-> <<>>, currenttime |-> now,
             before |-> commands_cyclic]]
    /\ ev' = Event("_read_cyclic_values", "lock", t, "", "-", <<>>, "-")
    /\ UNCHANGED <<alive, runtime_data_set, initial_values_read, connected,
                   data_received_callback, commands_read, commands_initial,
                   commands_cyclic, scheduler, now, sc>>
    /\ EnvUnchanged
    /\ ParamsUnchanged

NextFirings ==
    \/ SetRuntimeData(AllKeys)
    \/ \E ok \in BOOLEAN : Start(ok)
    \/ Stop
    \/ \E t \in FiringThreads : ReadCyclicValuesTest(t)
    \/ \E t \in FiringThreads : ReadCyclicValuesSet(t)
    \/ \E t \in Threads : LoopCall(t)
    \/ \E t \in Threads : LoopEnd(t)
    \/ \E t \in Threads, ok \in BOOLEAN : SendConnect(t, ok)
    \/ \E t \in Threads, outcome \in {"none", "reply"} : SendReturn(t, outcome)
    \/ Tick

\* the cyclic commands of the device are a and b
InitFirings ==
    /\ Init /\ ~MD_standalone /\ plugin
    /\ runtime.cycle_commands = <<Entry("a", 2, 0), Entry("b", 3, 0)>>

SpecFirings == InitFirings /\ [][NextFirings]_vars

----------------------------------------------------------------------------
(* The command classes, the registry and _get_connection on their own *)

\* the command classes of src/__init__.py; MD_Command is the class a device
\* uses if it is given none (MD_Device.py l.102-104, l.476-478)
Classes == {"MD_Command", "MD_Command_Str"}

\* the read_cmd and write_cmd of a command, <<>> if it has none
TemplatePairs ==
    { <<<<>>, <<>>>>,
      <<<<TokC>>, <<>>>>,
      <<<<TokC>>, <<TokC, Lit("/"), TokV>>>>,
      <<<<TokC, Lit("/"), TokV>>, <<>>>>,
      <<<<>>, <<TokC, Lit("/"), TokV>>>>,
      <<<<Lit("plain")>>, <<Lit("plain")>>>>,
      <<<<Lit("http://"), TokP("host"), Lit("/x")>>, <<TokV>>>> }

\* the opcode of a command
Opcodes ==
    { <<>>,
      <<Lit("http://host/set")>>,
      <<Lit("http://"), TokP("host"), Lit("/"), TokV>> }

\* the plugin parameters a command is built with (kwargs['plugin']): a value
\* may hold placeholders itself
PluginConfigs ==
    { NoKwargs,
      [host |-> <<Lit("h")>>],
      [host |-> <<TokV>>],
      [host |-> <<TokC>>],
      [host |-> <<TokP("port")>>, port |-> <<Lit("80")>>] }

\* plugin parameters with a value that holds its own placeholder, or the
\* placeholder of a value that holds its placeholder
SelfReferring ==
    { [host |-> <<TokP("host")>>],
      [host |-> <<TokP("port")>>, port |-> <<TokP("host")>>],
      [host |-> <<Lit("h")>>, port |-> <<TokP("port")>>] }

\* the params of a command: none, or one entry
CommandParams == {<<>>, <<"timeout">>}

\* the strings _parse_str is called with
Templates ==
    {pair[1] : pair \in TemplatePairs} \cup {pair[2] : pair \in TemplatePairs}
    \cup {<<Lit("http://host/"), Lit("plain")>>}

\* a string as Python shows it
RECURSIVE Text(_)
Text(string) ==
    IF string = <<>> THEN ""
    ELSE (CASE Head(string).k = "lit" -> Head(string).v
            [] Head(string).k = "C"   -> "$C"
            [] Head(string).k = "V"   -> "$V"
            [] Head(string).k = "P"   -> "$P:" \o Head(string).v \o ":")
         \o Text(Tail(string))

\* MD_Command.get_send_data l.283-297: the class has no attribute read_cmd
\* or write_cmd (l.243-250) and __init__ sets none (l.270), so the test of
\* l.287 or l.292 raises AttributeError
BaseGetSendData(c, data) == [raises |-> TRUE, payload |-> <<>>]

\* MD_Command_Str.get_send_data l.356-374, called on its own
StrGetSendData(c, data, params) ==
    IF RenderRaises(c) THEN [raises |-> TRUE, payload |-> <<>>]
    ELSE [raises |-> FALSE, payload |-> CommandGetSendData(c, data, params)]

\* get_send_data(data) of a command of the given class
ClassGetSendData(class, c, data, params) ==
    IF class = "MD_Command" THEN BaseGetSendData(c, data)
    ELSE StrGetSendData(c, data, params)

\* what leaves the device and the host as they are
DeviceUnchanged ==
    /\ UNCHANGED <<alive, runtime_data_set, initial_values_read,
                   cyclic_update_active, connected, data_received_callback,
                   commands_read, commands_initial, commands_cyclic, scheduler,
                   now, outer, sc, ev, connection, device_params>>
    /\ EnvUnchanged

\* get_send_data(data) is called on a command of the given class, built from
\* the given opcode and templates with the plugin parameters params
ApplyGetSendData(class, opcode, pair, cparams, data, params) ==
    /\ class = "MD_Command" => cparams = <<>>
    /\ LET c == [opcode |-> opcode, read_cmd |-> pair[1], write_cmd |-> pair[2],
                 params |-> cparams]
           r == ClassGetSendData(class, c, data, params)
       IN  applied' = [fn |-> "get_send_data", class |-> class, cmd |-> c,
                       data |-> data, plugin |-> params,
                       raises |-> r.raises, payload |-> r.payload]
    /\ DeviceUnchanged

\* _parse_str(string, data) is called on a command with the given opcode and
\* plugin parameters
ApplyParseStr(string, data, opcode, params) ==
    /\ applied' = [fn |-> "_parse_str", string |-> string, data |-> data,
                   opcode |-> opcode, plugin |-> params,
                   returns |-> ParseStrReturns(string, opcode, params),
                   result |-> ParseStr(string, data, opcode, params)]
    /\ DeviceUnchanged

\* what a connection hands back and what a datatype makes of it: a string,
\* a number or a mapping
WireStr(s) == [t |-> "str", str |-> s]
WireNum(n) == [t |-> "num", num |-> n]
WireMap(m) == [t |-> "map", map |-> m]

\* the replies of the device: '7' and {'data': {'value': '7'}, 'extra': 1}
Replies ==
    { WireStr("7"),
      WireMap([data |-> WireMap([value |-> WireStr("7")]), extra |-> WireNum(1)]) }

\* the device data types (dev_type) of the commands
DevTypes == {"raw", "num"}

\* the read_data of a command: the keys that lead to the value in a reply,
\* <<>> if it has none
ReadData == {<<>>, <<"data", "value">>}

\* get_shng_data of the datatype classes: what the call can do with the
\* data. DT_raw hands the data on; the numeric type makes a number of a
\* string of digits, and of a mapping it makes no number: it raises or
\* hands the mapping on.
DTDecode(dev_type, data) ==
    IF dev_type = "raw" THEN {[raises |-> FALSE, value |-> data]}
    ELSE IF data = WireStr("7") THEN {[raises |-> FALSE, value |-> WireNum(7)]}
    ELSE {[raises |-> TRUE, value |-> data], [raises |-> FALSE, value |-> data]}

\* MD_Command.get_shng_data l.299-301 (MD_Command_Str has no own one): the
\* data goes to the datatype and what comes back is returned; read_data,
\* stored at l.352, is not looked at
CommandGetShngData(c, data) == DTDecode(c.dev_type, data)

\* get_shng_data(data) is called on a command with the given dev_type and
\* read_data
ApplyGetShngData(dev_type, read_data, data) ==
    /\ LET c == [dev_type |-> dev_type, read_data |-> read_data]
       IN  \E r \in CommandGetShngData(c, data) :
                applied' = [fn |-> "get_shng_data", cmd |-> c, data |-> data,
                            raises |-> r.raises, value |-> r.value]
    /\ DeviceUnchanged

\* the read argument of is_valid_command: None (read or write), True (read
\* only) or False (write only)
Modes == {None, <<TRUE>>, <<FALSE>>}

\* mutant of RegistryIsValidCommand: the flag of the other mode is returned
RegistryIsValidCommand_Swapped(command, read) ==
    IF command \notin DOMAIN commands THEN FALSE
    ELSE IF read = None THEN TRUE
    ELSE IF read[1] THEN commands[command].write ELSE commands[command].read

\* MD_Commands.is_valid_command l.450-458
RegistryIsValidCommand(command, read) ==
    IF command \notin DOMAIN commands THEN FALSE
    ELSE IF read = None THEN TRUE
    ELSE IF read[1] THEN commands[command].read ELSE commands[command].write

\* MD_Device.is_valid_command l.263-266; has_commands: self._commands is a
\* registry, not None
DeviceIsValidCommand(has_commands, command, read) ==
    IF has_commands THEN RegistryIsValidCommand(command, read) ELSE FALSE

\* is_valid_command(command, read) is called on a device
ApplyIsValidCommand(has_commands, command, read) ==
    /\ applied' = [fn |-> "is_valid_command", registry |-> has_commands,
                   command |-> command, read |-> read, raises |-> FALSE,
                   result |-> DeviceIsValidCommand(has_commands, command, read)]
    /\ DeviceUnchanged

\* the plugin parameters _get_connection finds
ConnectionParams ==
    { NoKwargs,
      [host |-> <<Lit("h")>>],
      [conn_type |-> CONN_NET_TCP_CLI, host |-> <<Lit("h")>>],
      [conn_type |-> CONN_SER_ASYNC, port |-> <<Lit("80")>>],
      [conn_type |-> <<Lit("bogus")>>],
      [conn_type |-> <<Lit("bogus")>>, port |-> <<Lit("80")>>],
      [port |-> <<Lit("80")>>],
      [serial |-> <<Lit("/dev/ttyUSB0")>>],
      [port |-> <<Lit("80")>>, serial |-> <<Lit("/dev/ttyUSB0")>>] }

\* _get_connection() is called on a device with the plugin parameters params
ApplyGetConnection(params) ==
    /\ LET g == GetConnection(params)
       IN  applied' = [fn |-> "_get_connection", plugin |-> params,
                       raises |-> g.raises, conn_type |-> g.conn_type,
                       params |-> g.params]
    /\ DeviceUnchanged

\* the dev_type a command can be configured with; "bogus" names no class of
\* the module datatypes
ConfiguredDevTypes == DevTypes \cup {"bogus"}

\* the dev_types of the commands a registry is built from, in their order
Configurations ==
    {<<>>} \cup {<<d>> : d \in ConfiguredDevTypes}
    \cup {<<d1, d2>> : d1 \in ConfiguredDevTypes, d2 \in ConfiguredDevTypes}
    \cup {<<d1, d2, d3>> : d1 \in ConfiguredDevTypes, d2 \in ConfiguredDevTypes,
                           d3 \in ConfiguredDevTypes}

\* MD_Command.__init__ l.272-277: the datatype of the command. If the module
\* has no class DT_<dev_type>, getattr raises AttributeError and the handler
\* formats its warning with the name dev_type (l.276), which is no name of
\* this scope (the attribute is self.dev_type): NameError leaves __init__
\* before l.277.
CommandInit(dev_type) ==
    IF dev_type \in DevTypes THEN [raises |-> FALSE, DT |-> dev_type]
    ELSE [raises |-> TRUE, DT |-> ""]

RECURSIVE ReadCommands(_)
\* MD_Commands._read_commands l.516-521: the commands are built one after
\* the other; an exception of a constructor leaves the loop, _read_commands
\* and MD_Commands.__init__ (l.444)
ReadCommands(dev_types) ==
    IF dev_types = <<>> THEN [raises |-> FALSE, built |-> <<>>]
    ELSE LET c == CommandInit(Head(dev_types))
         IN  IF c.raises THEN [raises |-> TRUE, built |-> <<>>]
             ELSE LET r == ReadCommands(Tail(dev_types))
                  IN  [raises |-> r.raises, built |-> <<c.DT>> \o r.built]

\* a registry is constructed from commands with the given dev_types
ApplyReadCommands(dev_types) ==
    /\ LET r == ReadCommands(dev_types)
       IN  applied' = [fn |-> "_read_commands", dev_types |-> dev_types,
                       raises |-> r.raises, built |-> r.built]
    /\ DeviceUnchanged

\* the longest cycle of a cyclic command
MaxCycle == 5

\* the cyclic commands _create_cyclic_scheduler finds: none, one or two
\* commands with any cycles
CyclicConfigs ==
    {<<>>} \cup {<<Entry("a", c, 0)>> : c \in 1..MaxCycle}
    \cup {<<Entry("a", c1, 0), Entry("b", c2, 0)>> : c1 \in 1..MaxCycle,
                                                    c2 \in 1..MaxCycle}

\* _create_cyclic_scheduler() is called on a device with the given alive
\* flag, plugin instance and cyclic commands; sched: the jobs of the device
\* the scheduler holds
ApplyCreateCyclicScheduler(a, plg, cyclic, sched) ==
    /\ applied' = [fn |-> "_create_cyclic_scheduler", alive |-> a, plugin |-> plg,
                   cyclic |-> cyclic, before |-> sched, raises |-> FALSE,
                   jobs |-> CreateCyclicScheduler(a, plg, cyclic, sched)]
    /\ DeviceUnchanged

\* the methods of the commands, called in any order with any arguments
NextCommands ==
    \/ \E class \in Classes, opcode \in Opcodes, pair \in TemplatePairs,
          cparams \in CommandParams, data \in Values, params \in PluginConfigs :
            ApplyGetSendData(class, opcode, pair, cparams, data, params)
    \/ \E string \in Templates, data \in Values, opcode \in Opcodes,
          params \in PluginConfigs \cup SelfReferring :
            ApplyParseStr(string, data, opcode, params)
    \/ \E dev_type \in DevTypes, read_data \in ReadData, data \in Replies :
            ApplyGetShngData(dev_type, read_data, data)
    \/ \E has_commands \in BOOLEAN, command \in CommandNames, read \in Modes :
            ApplyIsValidCommand(has_commands, command, read)
    \/ \E params \in ConnectionParams : ApplyGetConnection(params)
    \/ \E dev_types \in Configurations : ApplyReadCommands(dev_types)
    \/ \E a \in BOOLEAN, plg \in BOOLEAN, cyclic \in CyclicConfigs,
          sched \in {<<>>, <<1>>} :
            ApplyCreateCyclicScheduler(a, plg, cyclic, sched)

\* one device, not started; only the methods above are called
InitCommands == Init /\ MD_standalone /\ plugin /\ runtime.read_commands = <<>>

SpecCommands == InitCommands /\ [][NextCommands]_vars

----------------------------------------------------------------------------
(* Properties *)

\* the state of the device object and of the scheduler
device == <<alive, runtime_data_set, initial_values_read, cyclic_update_active,
            connected, data_received_callback, commands_read, commands_initial,
            commands_cyclic, scheduler>>

\* call c is among the calls of the last step
Called(c) == \E k \in DOMAIN ev.calls : ev.calls[k] = c

\* C1: a send_command that finds the device not alive returns False at once:
\* it makes no call on the connection (no open, no send), does not invoke the
\* callback, and nothing of it is left running, whatever command and value.
C1_NotAliveRefused ==
    (ev.step = "call" /\ ~alive) =>
        /\ ev.ret = "False"
        /\ ev.calls = <<>>
        /\ sc[ev.t].pc = "idle"

\* a write of 42 with command b was refused on a stopped device
C1_Refused ==
    /\ ev.step = "call" /\ ev.op = "send_command" /\ ~alive
    /\ ev.command = "b" /\ ev.value = <<42>> /\ ev.ret = "False"
    /\ runtime_data_set

\* C2: send_command with a command the registry does not know, on an alive
\* device with the connection connected, returns False, does not call
\* connection.send and raises nothing.
C2_UnknownCommandAborts ==
    (ev.step = "connect" /\ ev.command \notin DOMAIN commands
        /\ connected /\ ~Called("open")) =>
        /\ ev.ret = "False"
        /\ ev.exit # "raise"
        /\ ~Called("send")

\* C3: a firing of _read_cyclic_values that finds the lock set returns at once:
\* no command is sent, the connection is not touched, no next-due time
\* changes, the lock stays set and nothing of the firing is left to run.
C3_OverrunSkipped ==
    [][ (cyclic_update_active /\ ev'.op = "_read_cyclic_values" /\ ev'.step = "enter")
        => /\ cyclic_update_active'
           /\ UNCHANGED <<commands_cyclic, connected, sc, outer, alive, scheduler>>
           /\ outer'["cyclic"].pc = "idle"
           /\ ev'.calls = <<>>
           /\ ev'.exit = "return" ]_vars

\* a firing was skipped on a running device
C3_Skipped ==
    /\ ev.op = "_read_cyclic_values" /\ ev.step = "enter" /\ ev.exit = "return"
    /\ cyclic_update_active /\ alive /\ connected

RECURSIVE C4_DueAt(_, _)
\* the commands of the mapping whose next-due time is <= t, in its order
C4_DueAt(cyclic, t) ==
    IF cyclic = <<>> THEN <<>>
    ELSE (IF Head(cyclic).next <= t THEN <<Head(cyclic).cmd>> ELSE <<>>)
         \o C4_DueAt(Tail(cyclic), t)

\* C4: a firing that starts with the lock free captures now once; when it ends
\* without having been cancelled, it has called send_command for exactly the
\* commands that were due at that time, in the order of the mapping, each due
\* command's next-due time is that time + its cycle, every other command has
\* the next-due time it had, and the lock is free again.
C4_FiringSendsDue ==
    [][ /\ (~cyclic_update_active /\ ev'.op = "_read_cyclic_values"
                /\ ev'.step = "enter")
            => /\ outer'["cyclic"].currenttime = now
               /\ outer'["cyclic"].before = commands_cyclic
        /\ (ev'.op = "_read_cyclic_values" /\ ev'.step = "end")
            => LET o == outer["cyclic"]
               IN  /\ o.sent = C4_DueAt(o.before, o.currenttime)
                   /\ DOMAIN commands_cyclic' = DOMAIN o.before
                   /\ \A k \in DOMAIN o.before :
                        commands_cyclic'[k] =
                            IF o.before[k].next <= o.currenttime
                            THEN [o.before[k] EXCEPT
                                    !.next = o.currenttime + o.before[k].cycle]
                            ELSE o.before[k]
                   /\ ~cyclic_update_active' ]_vars

\* a (cycle 2) and b (cycle 3), both due since 0, were sent by a firing at 1
C4_BothSent ==
    /\ ev.op = "_read_cyclic_values" /\ ev.step = "end"
    /\ commands_cyclic = <<Entry("a", 2, 3), Entry("b", 3, 4)>>

\* C5: when a firing, before it sends its next due command, finds the device
\* not alive or the connection not connected, it returns at once, sends
\* neither that command nor a later one, and leaves the lock set; with the
\* lock set and no firing running, no later step frees the lock or lets a
\* firing send a command.
C5_CancelledFiringKeepsLock ==
    [][ /\ (/\ outer["cyclic"].pc = "_read_cyclic_values"
            /\ sc["cyclic"].pc = "idle"
            /\ outer["cyclic"].i <= Len(outer["cyclic"].list)
            /\ (~alive \/ ~connected)
            /\ ev'.t = "cyclic" /\ ev'.step \in {"call", "cancel"})
            => /\ outer'["cyclic"].pc = "idle"
               /\ sc'["cyclic"].pc = "idle"
               /\ ev'.calls = <<>> /\ ev'.ret = "-"
               /\ cyclic_update_active'
               /\ UNCHANGED <<commands_cyclic, connected>>
        /\ (cyclic_update_active /\ outer["cyclic"].pc = "idle")
            => /\ cyclic_update_active'
               /\ outer'["cyclic"].pc = "idle"
               /\ sc'["cyclic"].pc = "idle" ]_vars

\* a firing that had sent a was cancelled before b: the device had been
\* stopped and started again, and the open had failed
C5_CancelledOnDisconnect ==
    /\ ev.op = "_read_cyclic_values" /\ ev.step = "cancel" /\ ev.command = "b"
    /\ cyclic_update_active /\ alive /\ ~connected

\* a start() that gets past the tests of alive and _runtime_data_set
C6_RealStart ==
    ~alive /\ runtime_data_set /\ ev'.op = "start" /\ ev'.step = "enter"

\* the job is registered after the step exactly when the device runs under
\* the host (not standalone, plugin instance set) and has a cyclic command
C6_JobRule ==
    (scheduler' # <<>>) <=> (~MD_standalone /\ plugin /\ commands_cyclic # <<>>)

\* C6 as amended: start() on a non-alive device with runtime data set marks
\* the device alive and calls connection.open once. If the connection is not
\* connected after that open, no initial command is sent and no job is
\* registered. If it is connected, the initial commands are sent, in their
\* order, exactly when there are any and no earlier start has read them; and
\* when start() returns, the job is registered exactly when the device is not
\* standalone, has a plugin instance and has at least one cyclic command.
C6_StartOpens ==
    [][ /\ C6_RealStart
            => /\ alive'
               /\ ev'.calls # <<>> /\ ev'.calls[1] = "open"
               /\ \A k \in DOMAIN ev'.calls : k > 1 => ev'.calls[k] # "open"
               /\ ~connected'
                    => /\ ev'.exit = "return"
                       /\ outer'["life"].pc = "idle" /\ sc'["life"].pc = "idle"
                       /\ scheduler' = <<>>
                       /\ initial_values_read' = initial_values_read
               /\ connected'
                    => IF commands_initial # <<>> /\ ~initial_values_read
                       THEN /\ outer'["life"].pc = "start"
                            /\ outer'["life"].list = commands_initial
                            /\ scheduler' = scheduler
                       ELSE ev'.exit = "return" /\ C6_JobRule
        /\ (ev'.op = "start" /\ ev'.step = "end")
            => /\ outer["life"].sent = commands_initial
               /\ initial_values_read'
               /\ ev'.exit = "return"
               /\ C6_JobRule ]_vars

\* a start() under the host has sent the initial commands and registered the job
C6_Started ==
    /\ ev.op = "start" /\ ev.step = "end"
    /\ alive /\ connected /\ initial_values_read /\ scheduler # <<>>
    /\ commands_initial = <<"a", "b">>

\* C6 as claimed: when a start() of a non-alive device with runtime data set
\* returns, under the host and with initial and cyclic commands configured,
\* the initial commands have been sent and the job is registered if and only
\* if the connection was connected after the open.
C6_StartIffConnected ==
    [][ (/\ ev'.op = "start" /\ ev'.exit = "return"
         /\ (C6_RealStart \/ ev'.step = "end")
         /\ commands_initial # <<>> /\ commands_cyclic # <<>>
         /\ plugin /\ ~MD_standalone)
        => LET connectedAfterOpen == IF ev'.step = "end" THEN TRUE ELSE connected'
               initialSent == ev'.step = "end" /\ outer["life"].sent = commands_initial
           IN  connectedAfterOpen <=> (initialSent /\ scheduler' # <<>>) ]_vars

\* C7: after every stop(), in whatever state it is called, alive is false, no
\* cyclic job is registered and the connection is not connected; a stop()
\* right after a stop() leaves the device and the scheduler as they were.
C7_StopIdempotent ==
    [][ ev'.op = "stop"
        => /\ ~alive' /\ scheduler' = <<>> /\ ~connected'
           /\ ev'.exit = "return"
           /\ (ev.op = "stop" => UNCHANGED device) ]_vars

\* a stop() removed the job and closed the connection while a send was in flight
C7_Stopped ==
    /\ ev.op = "stop" /\ ev.calls = <<"scheduler_remove", "close">>
    /\ sc["item"].pc = "sending"

\* C8: start() on a device that is alive changes nothing: no open, no initial
\* command sent, no job registered.
C8_StartWhenAlive ==
    [][ (alive /\ ev'.op = "start" /\ ev'.step = "enter")
        => /\ UNCHANGED <<device, outer, sc>>
           /\ ev'.calls = <<>>
           /\ ev'.exit = "return" ]_vars

\* start() was called on a running device whose connection is down
C8_StartedTwice ==
    /\ ev.op = "start" /\ ev.step = "enter" /\ ev.calls = <<>>
    /\ alive /\ ~connected /\ scheduler = <<>>

\* C9: set_runtime_data with a key missing raises nothing and does not set
\* _runtime_data_set; start() with _runtime_data_set false leaves the device
\* not alive and the connection alone; so an alive device has all its runtime
\* data: the three command collections and the callback of the host.
C9_RuntimeDataNeeded ==
    [][ /\ (ev'.op = "set_runtime_data" /\ ev'.keys # AllKeys)
            => /\ runtime_data_set' = runtime_data_set
               /\ ev'.exit = "return"
               /\ UNCHANGED <<alive, connected>>
        /\ (~runtime_data_set /\ ev'.op = "start" /\ ev'.step = "enter")
            => /\ ~alive'
               /\ ev'.calls = <<>>
               /\ UNCHANGED <<connected, outer, sc>>
        /\ alive'
            => /\ runtime_data_set'
               /\ data_received_callback' = runtime.callback
               /\ commands_read' = runtime.read_commands
               /\ commands_initial' = runtime.initial_commands
               /\ DOMAIN commands_cyclic' = DOMAIN runtime.cycle_commands ]_vars

\* start() was refused after a set_runtime_data without its callback
C9_StartRefused ==
    /\ ev.op = "start" /\ ev.step = "enter" /\ ev.exit = "return"
    /\ ~alive /\ ~runtime_data_set
    /\ commands_initial = <<"a", "b">> /\ ~data_received_callback

\* C10: when connection.send raises, send_command returns False, the callback
\* is not invoked and no exception leaves send_command.
C10_SendExceptionCaught ==
    (ev.step = "answer" /\ ev.outcome = "raise") =>
        /\ ev.ret = "False"
        /\ ~Called("callback")
        /\ ev.exit # "raise"

\* connection.send raised in an on-demand send_command with a callback set
C10_SendRaised ==
    /\ ev.step = "answer" /\ ev.outcome = "raise" /\ ev.op = "send_command"
    /\ ev.ret = "False" /\ ev.exit = "return" /\ data_received_callback

\* C11: when the connection returns a non-empty response whose decoding
\* raises, send_command returns True, does not invoke the callback and raises
\* nothing; in a batch (start, read_all_commands, a cyclic firing) the
\* operation goes on with its next command.
C11_DecodeFailureDiscarded ==
    [][ (ev'.step = "answer" /\ ev'.outcome = "undecodable")
        => /\ ev'.ret = "True"
           /\ \A k \in DOMAIN ev'.calls : ev'.calls[k] # "callback"
           /\ ev'.exit # "raise"
           /\ sc'[ev'.t].pc = "idle"
           /\ outer[ev'.t].pc \in Loops
                => /\ ev'.exit = "-"
                   /\ outer'[ev'.t] = [outer[ev'.t] EXCEPT !.i = @ + 1] ]_vars

\* in a read_all_commands over a and b, the reply to a could not be decoded;
\* the loop is at b
C11_DecodeFailed ==
    /\ ev.step = "answer" /\ ev.outcome = "undecodable"
    /\ ev.op = "read_all_commands" /\ ev.command = "a" /\ ev.ret = "True"
    /\ data_received_callback
    /\ outer["item"].list = <<"a", "b">> /\ outer["item"].i = 2

\* how often the callback was called in the step that led to event e
C12_Callbacks(e) == Cardinality({k \in DOMAIN e.calls : e.calls[k] = "callback"})

\* C12: a send_command whose response is not empty and is decoded calls the
\* registered callback exactly once, with the name of the device, the command
\* and the decoded value; with an empty response, or with no callback
\* registered, it calls none; and the device calls the callback in no other
\* step, so a value that found no callback is not delivered later, neither
\* by the set_runtime_data that registers one nor after it.
C12_CallbackOncePerReply ==
    [][ /\ (ev'.step = "answer" /\ ev'.outcome \in {"reply", "reply_callback_raises"}
                /\ data_received_callback)
            => /\ C12_Callbacks(ev') = 1
               /\ ev'.args = <<device_name, ev'.command, <<Response>>>>
        /\ (ev'.step = "answer" /\ ev'.outcome = "none") => C12_Callbacks(ev') = 0
        /\ ~data_received_callback => C12_Callbacks(ev') = 0
        /\ ev'.op \in {"send_command", "read_all_commands", "start",
                       "_read_cyclic_values", "set_runtime_data", "stop"}
            => \/ C12_Callbacks(ev') = 0
               \/ ev'.step = "answer" /\ ev'.outcome \in {"reply", "reply_callback_raises"}
        ]_vars

\* a write of 42 with b was answered and the callback called with the reply
C12_Delivered ==
    /\ ev.step = "answer" /\ ev.outcome = "reply" /\ ev.op = "send_command"
    /\ ev.command = "b" /\ ev.value = <<42>>
    /\ ev.calls = <<"callback">> /\ ev.args = <<"dev1", "b", <<"r">>>>

\* a reply was decoded on a device whose host gave no callback: no call
C12_Discarded ==
    /\ ev.step = "answer" /\ ev.outcome = "reply" /\ ev.ret = "True"
    /\ ev.calls = <<>> /\ ~data_received_callback /\ alive

\* C13: when the payload rendered for a command is None or the empty string
\* (command e), or rendering it raises (command p), send_command returns
\* False, does not call connection.send and raises nothing.
C13_NoPayloadAborts ==
    (ev.step = "connect" /\ ev.command \in {"e", "p"}) =>
        /\ ev.ret = "False"
        /\ ~Called("send")
        /\ ev.exit # "raise"
        /\ sc[ev.t].pc = "idle"

\* the rendering of p raised in a send_command on a connected device
C13_RenderRaised ==
    /\ ev.step = "connect" /\ ev.command = "p" /\ ev.op = "send_command"
    /\ alive /\ connected /\ ev.ret = "False" /\ ev.exit = "return"

\* e rendered the empty string, as the second of two initial commands of start
C13_EmptyRendered ==
    /\ ev.step = "connect" /\ ev.command = "e" /\ ev.op = "start"
    /\ alive /\ connected /\ ev.ret = "False" /\ ev.exit = "-"

\* C14: read_all_commands calls send_command once for every entry of
\* _commands_read, one after the other in their order, whatever happens to a
\* single entry: it ends by returning, never by an exception, and by then
\* send_command was called for exactly the entries, in their order; and while
\* a send_command of it is running, it calls no other.
C14_ReadAllSendsAll ==
    [][ /\ (ev'.op = "read_all_commands" /\ ev'.exit # "-")
            => /\ ev'.exit = "return"
               /\ outer["item"].sent = outer["item"].list
        /\ (ev'.op = "read_all_commands" /\ ev'.step = "call")
            => /\ sc["item"].pc = "idle"
               /\ ev'.command = outer["item"].list[outer["item"].i] ]_vars

\* C15: on a device that __init__ left disabled (no connection object), every
\* call of start, stop, send_command and read_all_commands returns without an
\* exception, and the device never becomes alive.
C15_DisabledIsInert ==
    connection = NoConnection =>
        /\ ~alive
        /\ ev.exit # "raise"
        /\ ev.ret # "raise"

\* C16: update_device_params on an alive device changes nothing: the plugin
\* parameters, the connection object, its connected state and the runtime
\* data are as before the call, nothing is called and nothing raised. (The
\* registry is touched by no update_device_params at all, see C18.)
C16_UpdateWhileAliveRefused ==
    [][ (alive /\ ev'.op = "update_device_params")
        => /\ UNCHANGED <<device_params, connection, device, outer, sc>>
           /\ ev'.calls = <<>>
           /\ ev'.exit = "return" ]_vars

\* a new host was refused on a running, connected device
C16_Refused ==
    /\ ev.op = "update_device_params" /\ DOMAIN ev.kwargs = {"host"}
    /\ alive /\ connected /\ connection = 1 /\ device_params = plugin_params

\* C17: update_device_params with parameters given, on a device that is not
\* alive, returns with every given key at its new value, every other key at
\* its old value, and a newly built connection object, built from the merged
\* parameters, in the place of the old one; close is not called on the old
\* object; and every later open, send and close of the device is called on
\* the object it has then.
C17_UpdateReplacesConnection ==
    [][ /\ (~alive /\ ev'.op = "update_device_params" /\ DOMAIN ev'.kwargs # {})
            => /\ ev'.exit = "return"
               /\ DOMAIN device_params' = DOMAIN device_params \cup DOMAIN ev'.kwargs
               /\ \A k \in DOMAIN device_params' :
                    device_params'[k] = IF k \in DOMAIN ev'.kwargs THEN ev'.kwargs[k]
                                        ELSE device_params[k]
               /\ connection' \notin 0..connection
               /\ ev'.calls = <<"Connection">>
               /\ ev'.args = device_params'
        /\ (\E k \in DOMAIN ev'.calls : ev'.calls[k] \in {"open", "send", "close"})
            => ev'.conn = connection' ]_vars

\* C18: after an update_device_params on a stopped device, the payload that
\* send_command renders has the values of the updated parameters in the
\* place of its $P:key: tokens: the payload of a read of command a, whose
\* read template is $C and whose opcode is http://$P:host:/a, is http:// +
\* the host parameter of the device + /a.
C18_PayloadUsesUpdatedParams ==
    (ev.step = "connect" /\ ev.command = "a" /\ ev.value = None /\ Called("send")) =>
        ev.payload = <<Lit("http://")>> \o device_params["host"] \o <<Lit("/a")>>

\* C19: on_data_received with no command asks the registry for the command
\* of the data, and only then; if the registry finds none, nothing is decoded
\* and the callback is not called. With a command, given or found, the data
\* is decoded; if that works, the callback, if one is set, is called once
\* with the name of the device, the command and the value (None for a name
\* the registry does not know); if the decoding raises, the callback is not
\* called and on_data_received returns.
C19_ReceivedDataDispatched ==
    ev.op = "on_data_received" =>
        /\ Called("get_command_from_reply") <=> ev.value = None
        /\ ev.command = "" <=> (ev.value = None /\ ~Called("get_shng_data"))
        /\ ev.command = "" => (ev.calls = <<"get_command_from_reply">> /\ ev.exit = "return")
        /\ (ev.command # "" /\ ev.value # None) => ev.command = ev.value[1]
        /\ (ev.command # "" /\ ev.outcome # "undecodable")
            => /\ C12_Callbacks(ev) = IF data_received_callback THEN 1 ELSE 0
               /\ data_received_callback
                    => ev.args = <<device_name, ev.command,
                                   IF ev.command \in {"a", "b", "e", "p"}
                                   THEN <<Response>> ELSE None>>
        /\ (ev.command # "" /\ ev.outcome = "undecodable")
            => (C12_Callbacks(ev) = 0 /\ ev.exit = "return")

\* data came without a command, the registry found it to be for a, and the
\* callback got the value, on a device that is not alive
C19_Identified ==
    /\ ev.op = "on_data_received" /\ ev.value = None /\ ev.command = "a"
    /\ ev.calls = <<"get_command_from_reply", "get_shng_data", "callback">>
    /\ ev.args = <<"dev1", "a", <<"r">>>> /\ ~alive

\* data came without a command and the registry found none
C19_NotIdentified ==
    /\ ev.op = "on_data_received" /\ ev.value = None /\ ev.command = ""
    /\ ev.calls = <<"get_command_from_reply">> /\ data_received_callback

\* C20: the lock of the cyclic run does not stand in the way of an on-demand
\* send_command: with _cyclic_update_active set, a send_command of the host
\* is refused at l.165-171 only if the device is not alive, hands the payload
\* of a known command to connection.send once the connection is connected,
\* and returns True when connection.send has returned. (That a send of the
\* host and a send of a firing are in flight at the same time on the same
\* connection is the state C20_BothInFlight.)
C20_LockDoesNotBlockSend ==
    [][ (cyclic_update_active /\ ev'.op = "send_command")
        => /\ ev'.step = "call" => (ev'.ret = "False" <=> ~alive)
           /\ (ev'.step = "connect" /\ connected' /\ ev'.command \in {"a", "b"})
                => /\ ev'.calls[Len(ev'.calls)] = "send"
                   /\ sc'["item"].pc = "sending"
           /\ (ev'.step = "answer" /\ ev'.outcome \in {"none", "undecodable", "reply"})
                => ev'.ret = "True" ]_vars

\* the host's write of b is handed to connection.send while the send of a
\* firing is in flight on the same connection object
C20_BothInFlight ==
    /\ sc["cyclic"].pc = "sending" /\ outer["cyclic"].pc = "_read_cyclic_values"
    /\ sc["item"].pc = "sending" /\ outer["item"].pc = "send_command"
    /\ ev.t = "item" /\ ev.step = "connect" /\ ev.command = "b"
    /\ ev.calls = <<"send">> /\ ev.conn = connection
    /\ cyclic_update_active /\ alive /\ connected

C21_SentAfterStop ==
    /\ ev.op = "_read_cyclic_values" /\ ev.step = "connect" /\ Called("send")
    /\ ~alive

\* the command of the scenario is a string command without params, with the
\* opcode 'http://host/set', and get_send_data(42) was called on it
C22_Scenario ==
    /\ applied.fn = "get_send_data"
    /\ applied.class = "MD_Command_Str"
    /\ applied.cmd.params = <<>>
    /\ Text(applied.cmd.opcode) = "http://host/set"
    /\ applied.data = <<42>>

\* C22 as stated: with the read template '$C/$V' the payload of a send of 42
\* is 'http://host/set/42'.
C22_ReadTemplateRendersValue ==
    (C22_Scenario /\ Text(applied.cmd.read_cmd) = "$C/$V")
        => (~applied.raises /\ Text(applied.payload) = "http://host/set/42")

\* C22, amended: it is the write template '$C/$V' that renders a send of 42
\* to 'http://host/set/42', whatever the read template; a command that has
\* the read template '$C/$V' and no write template sends the opcode
\* 'http://host/set' as it is.
C22_WriteTemplateRendersValue ==
    /\ (C22_Scenario /\ Text(applied.cmd.write_cmd) = "$C/$V")
         => (~applied.raises /\ Text(applied.payload) = "http://host/set/42")
    /\ (C22_Scenario /\ Text(applied.cmd.read_cmd) = "$C/$V"
            /\ applied.cmd.write_cmd = <<>>)
         => (~applied.raises /\ Text(applied.payload) = "http://host/set")

\* 42 was sent with a command that has the read template '$C' and the write
\* template '$C/$V'
C22_Rendered ==
    /\ C22_Scenario
    /\ Text(applied.cmd.read_cmd) = "$C" /\ Text(applied.cmd.write_cmd) = "$C/$V"
    /\ Text(applied.payload) = "http://host/set/42"

RECURSIVE C23_Flat(_)
\* the strings of a sequence of strings, one after the other
C23_Flat(strings) ==
    IF strings = <<>> THEN <<>> ELSE Head(strings) \o C23_Flat(Tail(strings))

\* the string with every $C replaced by the opcode
C23_Opcode(string, opcode) ==
    C23_Flat([i \in DOMAIN string |->
                IF string[i] = TokC THEN opcode ELSE <<string[i]>>])

RECURSIVE C23_Config(_, _)
\* the configuration values are put in until no $P:key: is left
C23_Config(string, config) ==
    IF \A i \in DOMAIN string : string[i].k # "P" THEN string
    ELSE C23_Config(
            C23_Flat([i \in DOMAIN string |->
                IF string[i].k # "P" THEN <<string[i]>>
                ELSE IF string[i].v \in DOMAIN config THEN config[string[i].v]
                ELSE <<>>]), config)

\* the string with every $V replaced by the value as a string
C23_Value(string, value) ==
    C23_Flat([i \in DOMAIN string |->
                IF string[i] = TokV THEN <<Lit(Str(value))>> ELSE <<string[i]>>])

\* the payload as the three steps give it: $C, then $P:key:, then $V
C23_Rendered(template, opcode, config, data) ==
    LET s == C23_Config(C23_Opcode(template, opcode), config)
    IN  IF data = None THEN s ELSE C23_Value(s, data[1])

\* the payload of get_send_data(data) for command c
C23_Payload(c, config, data) ==
    LET template == IF data = None THEN c.read_cmd ELSE c.write_cmd
    IN  IF template = <<>> THEN c.opcode
        ELSE C23_Rendered(template, c.opcode, config, data)

\* C23: get_send_data of a command (without params) returns as payload the
\* rendered read template if no value is given, the rendered write template
\* if one is given, the opcode as it is if that template is missing, and
\* renders in the order $C, $P:key: until none is left, $V only with a value.
C23_PayloadSelection ==
    (applied.fn = "get_send_data" /\ applied.cmd.params = <<>>)
        => /\ ~applied.raises
           /\ applied.payload = C23_Payload(applied.cmd, applied.plugin, applied.data)

\* the same for the commands of class MD_Command_Str only: this holds
C23_StrPayloadSelection ==
    (applied.fn = "get_send_data" /\ applied.cmd.params = <<>>
        /\ applied.class = "MD_Command_Str")
        => /\ ~applied.raises
           /\ applied.payload = C23_Payload(applied.cmd, applied.plugin, applied.data)

\* the opcode held a $P:host: and a $V, the configured host a $V: all were
\* replaced in a write of 42 through the template $C/$V
C23_OrderSeen ==
    /\ applied.fn = "get_send_data" /\ applied.class = "MD_Command_Str"
    /\ ~applied.raises
    /\ Text(applied.cmd.opcode) = "http://$P:host:/$V"
    /\ Text(applied.cmd.write_cmd) = "$C/$V"
    /\ applied.data = <<42>>
    /\ "host" \in DOMAIN applied.plugin /\ Text(applied.plugin.host) = "$V"
    /\ Text(applied.payload) = "http://42/42/42"

\* C24: a command with the reply-extraction path [data, value] decodes the
\* reply {data: {value: '7'}, extra: 1} to the element the path leads to in
\* what the datatype returns: the number 7 with the numeric type, the string
\* '7' with the raw type.
C24_ReplyExtraction ==
    (applied.fn = "get_shng_data" /\ applied.cmd.read_data = <<"data", "value">>
        /\ applied.data.t = "map")
        => /\ ~applied.raises
           /\ applied.cmd.dev_type = "num" => applied.value = WireNum(7)
           /\ applied.cmd.dev_type = "raw" => applied.value = WireStr("7")

\* C25: is_valid_command raises nothing; it returns False for a name that is
\* not in the registry, whatever the mode, and for every name if the device
\* has no registry; for a registered name it returns True if no mode is
\* given, the read flag of the command for read only and its write flag for
\* write only.
C25_IsValidCommand ==
    applied.fn = "is_valid_command" =>
        /\ ~applied.raises
        /\ (applied.command \notin KnownCommands \/ ~applied.registry)
             => applied.result = FALSE
        /\ (applied.command \in KnownCommands /\ applied.registry)
             => /\ applied.read = None => applied.result = TRUE
                /\ applied.read = <<TRUE>>
                     => applied.result = commands[applied.command].read
                /\ applied.read = <<FALSE>>
                     => applied.result = commands[applied.command].write

\* a name the registry does not know was asked for, read only
C25_UnknownRefused ==
    /\ applied.fn = "is_valid_command" /\ applied.registry
    /\ applied.command = "x" /\ applied.read = <<TRUE>>
    /\ applied.result = FALSE

\* a, a command that can be read and not written, was asked for, write only
C25_NotWritable ==
    /\ applied.fn = "is_valid_command" /\ applied.registry
    /\ applied.command = "a" /\ applied.read = <<FALSE>>
    /\ applied.result = FALSE

\* C26: _parse_str returns a string that holds none of $C, $P:key:, $V as it
\* is, whatever the opcode, the plugin parameters and the value, given or
\* not.
C26_NoPlaceholderUnchanged ==
    (applied.fn = "_parse_str"
        /\ \A i \in DOMAIN applied.string : applied.string[i].k = "lit")
        => /\ applied.result = applied.string
           /\ Text(applied.result) = Text(applied.string)

\* 'plain' was rendered with the value 42 on a command whose opcode holds a
\* $P:host: and a $V, the host being configured
C26_PlainRendered ==
    /\ applied.fn = "_parse_str"
    /\ Text(applied.string) = "plain" /\ Text(applied.result) = "plain"
    /\ applied.data = <<42>>
    /\ Text(applied.opcode) = "http://$P:host:/$V"
    /\ "host" \in DOMAIN applied.plugin

\* the connection type is configured and one of the recognized types
C27_Configured(params) ==
    /\ "conn_type" \in DOMAIN params
    /\ \E type \in {"net_tcp_cli", "net_tcp_srv", "net_udp_srv", "ser_cli", "ser_async"} :
            Text(params.conn_type) = type

\* C27: _get_connection raises nothing and takes the configured connection
\* type if it is a recognized one, else the request/reply network client if
\* there is a network port, else the request/reply serial client if there is
\* a serial port, else no type: the base connection.
C27_ConnectionSelected ==
    applied.fn = "_get_connection" =>
        /\ ~applied.raises
        /\ IF C27_Configured(applied.plugin)
           THEN applied.conn_type = applied.plugin.conn_type
           ELSE IF "port" \in DOMAIN applied.plugin
           THEN Text(applied.conn_type) = "net_tcp_req"
           ELSE IF "serial" \in DOMAIN applied.plugin
           THEN Text(applied.conn_type) = "ser_cli"
           ELSE applied.conn_type = None

\* the same where a type is configured or a port is there: this holds
C27_SelectedIfDecidable ==
    (applied.fn = "_get_connection"
        /\ \/ C27_Configured(applied.plugin)
           \/ "port" \in DOMAIN applied.plugin
           \/ "serial" \in DOMAIN applied.plugin)
        => /\ ~applied.raises
           /\ IF C27_Configured(applied.plugin)
              THEN applied.conn_type = applied.plugin.conn_type
              ELSE IF "port" \in DOMAIN applied.plugin
              THEN Text(applied.conn_type) = "net_tcp_req"
              ELSE Text(applied.conn_type) = "ser_cli"

\* C28: a registry is built whatever the dev_types of its commands: nothing
\* is raised, every command is built, with the datatype its dev_type names
\* and with the raw datatype if it names none.
C28_UnknownDatatypeFallsBack ==
    applied.fn = "_read_commands" =>
        /\ ~applied.raises
        /\ Len(applied.built) = Len(applied.dev_types)
        /\ \A i \in DOMAIN applied.built :
                applied.built[i] = IF applied.dev_types[i] \in {"raw", "num"}
                                   THEN applied.dev_types[i] ELSE "raw"

\* the same for registries whose dev_types all name a datatype: this holds
C28_KnownDatatypesBuilt ==
    (applied.fn = "_read_commands"
        /\ \A i \in DOMAIN applied.dev_types : applied.dev_types[i] \in {"raw", "num"})
        => /\ ~applied.raises
           /\ applied.built = applied.dev_types

\* C29: start() sends the initial commands in the order of _commands_initial,
\* one after the other; once a start() has been through them (the latch
\* _initial_values_read is set at l.425), the latch stays set and no later
\* start() calls send_command, whatever stop(), start() and
\* set_runtime_data() were called in between.
C29_InitialReadOnce ==
    [][ /\ (ev'.op = "start" /\ ev'.step = "call")
            => /\ ~initial_values_read
               /\ outer["life"].list = commands_initial
               /\ outer["life"].sent = SubSeq(commands_initial, 1, outer["life"].i - 1)
               /\ ev'.command = commands_initial[outer["life"].i]
        /\ initial_values_read
            => /\ initial_values_read'
               /\ ev'.op = "start"
                    => /\ ev'.step = "enter"
                       /\ \A k \in DOMAIN ev'.calls : ev'.calls[k] # "send"
                       /\ outer'["life"].pc = "idle" /\ sc'["life"].pc = "idle" ]_vars

\* a start() after a stop() opened the connection and sent no initial
\* command, an earlier start() having sent them
C29_NotReadAgain ==
    /\ ev.op = "start" /\ ev.step = "enter" /\ ev.calls # <<>> /\ ev.calls[1] = "open"
    /\ alive /\ connected /\ initial_values_read
    /\ commands_initial = <<"a", "b">>
    /\ outer["life"].pc = "idle"

C30_Released ==
    /\ ev.op = "_read_cyclic_values" /\ ev.step = "end"
    /\ ~cyclic_update_active /\ alive /\ connected

\* the number of calls of open among the calls of event e
C31_Opens(e) == Cardinality({k \in DOMAIN e.calls : e.calls[k] = "open"})

\* C31: a send_command that got past the alive test calls connection.open
\* once if the connection is not connected, and not at all if it is. If the
\* connection is not connected after the open, send_command returns False,
\* has no payload and does not call connection.send; if it is, the command
\* goes on as on a connected device: the payload of a and b is the one the
\* registry renders, and it is handed to connection.send.
C31_OpenOnDemand ==
    [][ ev'.step = "connect"
        => /\ C31_Opens(ev') = IF connected THEN 0 ELSE 1
           /\ ~connected => ev'.calls[1] = "open"
           /\ ~connected'
                => /\ ev'.ret = "False"
                   /\ ev'.payload = <<>>
                   /\ \A k \in DOMAIN ev'.calls : ev'.calls[k] # "send"
                   /\ sc'[ev'.t].pc = "idle"
           /\ (connected' /\ ev'.command \in {"a", "b"})
                => /\ ev'.calls[Len(ev'.calls)] = "send"
                   /\ ev'.payload = GetSendData(ev'.command, ev'.value).payload
                   /\ ev'.payload # <<>>
                   /\ sc'[ev'.t].pc = "sending" ]_vars

\* the host's send_command found the connection closed, opened it and sent b
C31_Reopened ==
    /\ ev.op = "send_command" /\ ev.step = "connect" /\ ev.command = "b"
    /\ ev.calls = <<"open", "send">> /\ connected /\ alive

\* the open of the host's send_command failed
C31_OpenFailed ==
    /\ ev.op = "send_command" /\ ev.step = "connect"
    /\ ev.calls = <<"open">> /\ ~connected /\ alive /\ ev.ret = "False"

\* C32: _create_cyclic_scheduler on a device that is alive, has a plugin
\* instance and at least one cyclic command leaves exactly one job, whose
\* period p is the half of the shortest cycle m of the cyclic commands,
\* rounded down (2p <= m < 2p + 2); a device that is not alive, has no
\* plugin instance or no cyclic command keeps the jobs it had. The device
\* never has more than one job.
C32_JobPeriod ==
    applied.fn = "_create_cyclic_scheduler"
        => /\ Len(applied.jobs) <= 1
           /\ IF applied.alive /\ applied.plugin /\ applied.cyclic # <<>>
              THEN /\ Len(applied.jobs) = 1
                   /\ \E k \in DOMAIN applied.cyclic :
                        LET m == applied.cyclic[k].cycle
                            p == applied.jobs[1]
                        IN  /\ \A j \in DOMAIN applied.cyclic :
                                    applied.cyclic[j].cycle >= m
                            /\ 2 * p <= m /\ m < 2 * p + 2
              ELSE applied.jobs = applied.before

\* a job existed when the job of cycles 5 and 3 was registered with period 1
C32_Replaced ==
    /\ applied.fn = "_create_cyclic_scheduler"
    /\ applied.alive /\ applied.plugin
    /\ applied.cyclic = <<Entry("a", 5, 0), Entry("b", 3, 0)>>
    /\ applied.before = <<1>> /\ applied.jobs = <<1>>

\* the operations of the device other than the firing of the cyclic job
C33_Operations ==
    {"start", "stop", "set_runtime_data", "update_device_params", "send_command",
     "read_all_commands", "on_data_received"}

\* C33: _cyclic_update_active goes from true to false only in the step that
\* ends the loop of a firing (l.468); no step of start, stop,
\* set_runtime_data, update_device_params, send_command, read_all_commands or
\* on_data_received changes it, and a lock that is set while no firing runs
\* stays set whatever is called.
C33_OnlyFiringReleases ==
    [][ /\ (cyclic_update_active /\ ~cyclic_update_active')
            => /\ ev'.op = "_read_cyclic_values" /\ ev'.step = "end"
               /\ ev'.exit = "return" /\ outer["cyclic"].pc = "_read_cyclic_values"
               /\ outer["cyclic"].i > Len(outer["cyclic"].list)
        /\ ev'.op \in C33_Operations => cyclic_update_active' = cyclic_update_active
        /\ (cyclic_update_active /\ outer["cyclic"].pc = "idle")
            => cyclic_update_active' ]_vars

\* a firing was aborted, the device was stopped and started again, the job
\* is registered again, and the lock is still set
C33_LockSurvivesRestart ==
    /\ ev.op = "start" /\ ev.exit = "return" /\ alive /\ scheduler # <<>>
    /\ cyclic_update_active /\ outer["cyclic"].pc = "idle"

\* update_device_params replaced the connection of a device whose lock was
\* left set
C33_LockSurvivesUpdate ==
    /\ ev.op = "update_device_params" /\ ev.calls = <<"Connection">>
    /\ cyclic_update_active /\ outer["cyclic"].pc = "idle"

\* the step ends a send_command of the firing in which the registry knows
\* no command of the name, or in which the callback of the host raises
C34_SendRaises ==
    /\ ev'.t = "cyclic" /\ outer["cyclic"].pc = "_read_cyclic_values"
    /\ \/ /\ ev'.step = "connect" /\ connected'
          /\ ~GetSendData(ev'.command, ev'.value).found
       \/ /\ ev'.step = "answer" /\ ev'.outcome = "reply_callback_raises"
          /\ data_received_callback

\* C34: a send_command of a cyclic firing that raises, because the registry
\* has no command of the name or because the callback raises, ends the
\* firing there: the lock stays set, the next-due times are the ones before
\* the call, so the raising command's is not advanced, and the firing is
\* left with the rest of its due commands not handed to send_command.
C34_RaiseAbortsFiring ==
    [][ C34_SendRaises
        => /\ ev'.op = "_read_cyclic_values" /\ ev'.exit = "raise"
           /\ ev'.command = outer["cyclic"].list[outer["cyclic"].i]
           /\ cyclic_update_active /\ cyclic_update_active'
           /\ commands_cyclic' = commands_cyclic
           /\ \A k \in DOMAIN commands_cyclic :
                commands_cyclic[k].cmd = ev'.command
                    => /\ commands_cyclic'[k].next <= outer["cyclic"].currenttime
                       /\ commands_cyclic'[k].next
                            = outer["cyclic"].before[k].next
           /\ outer'["cyclic"].pc = "idle" /\ sc'["cyclic"].pc = "idle"
           /\ outer["cyclic"].sent
                = SubSeq(outer["cyclic"].list, 1, outer["cyclic"].i) ]_vars

\* the callback raised for a, the first of the two commands due at time 0:
\* b was not sent, and both are still due
C34_CallbackRaisedFirst ==
    /\ ev.op = "_read_cyclic_values" /\ ev.exit = "raise" /\ ev.command = "a"
    /\ ev.outcome = "reply_callback_raises" /\ now = 0
    /\ commands_cyclic = <<Entry("a", 2, 0), Entry("b", 3, 0)>>
    /\ cyclic_update_active /\ outer["cyclic"].pc = "idle"

\* the registry had no command x
C34_UnknownCyclicCommand ==
    /\ ev.op = "_read_cyclic_values" /\ ev.exit = "raise" /\ ev.command = "x"
    /\ ev.step = "connect" /\ cyclic_update_active
    /\ commands_cyclic = <<Entry("x", 2, 0), Entry("a", 2, 1)>>

\* C35: when stop() and a send_command of another thread have both returned,
\* the device is not alive and its connection is not connected: a device
\* that is not alive, with no send_command under way, has no open connection.
C35_ClosedAfterStop ==
    (~alive /\ \A t \in Threads : sc[t].pc = "idle") => ~connected

\* C36: of two firings of _read_cyclic_values started concurrently, at most
\* one is in the send loop: the two workers are never both past the set of
\* the lock (l.442) and before the end of their firing.
C36_AtMostOneInLoop ==
    ~(/\ outer["cyclic"].pc = "_read_cyclic_values"
      /\ outer["cyclic2"].pc = "_read_cyclic_values")

\* the device is alive, no start() is under way and no job is registered
C37_Degraded ==
    alive /\ outer["life"].pc = "idle" /\ scheduler = <<>>

\* C37: a start() that finds the connection not connected after the open
\* leaves the device alive, without job and without initial reads; from then
\* on every operation but stop() leaves it so, a send_command that re-opens
\* the connection included: no job is registered, no initial command is
\* sent, and a start() returns at once without a call.
C37_DegradedUntilStop ==
    [][ /\ (/\ ~alive /\ runtime_data_set
            /\ ev'.op = "start" /\ ev'.step = "enter" /\ ~connected')
            => /\ C37_Degraded'
               /\ ev'.calls = <<"open">>
               /\ initial_values_read' = initial_values_read
        /\ (C37_Degraded /\ ev'.op # "stop")
            => /\ C37_Degraded'
               /\ initial_values_read' = initial_values_read
               /\ ev'.op = "start" => ev'.calls = <<>> /\ ev'.exit = "return"
               /\ \A k \in DOMAIN ev'.calls : ev'.calls[k] # "scheduler_add" ]_vars

\* under the host, with initial and cyclic commands configured: a
\* send_command has re-opened the connection of a device that is alive
\* without job and without initial reads
C37_ReopenedWithoutJob ==
    /\ C37_Degraded /\ ~initial_values_read /\ connected
    /\ ev.op = "send_command" /\ ev.step = "connect" /\ ev.calls = <<"open", "send">>
    /\ plugin /\ ~MD_standalone
    /\ commands_initial = <<"a", "b">> /\ commands_cyclic # <<>>

\* start() found the connection not connected after its open
C37_StartFailed ==
    /\ C37_Degraded /\ ~initial_values_read /\ ~connected
    /\ ev.op = "start" /\ ev.calls = <<"open">> /\ ev.exit = "return"
    /\ plugin /\ ~MD_standalone
    /\ commands_initial = <<"a", "b">> /\ commands_cyclic # <<>>

\* C38: when a send_command of a firing returns, True or False, the next-due
\* time of its command is the time the firing captured at its start plus
\* the cycle of the command, so the command is not due again at that time;
\* the other commands keep theirs. No other step changes the next-due time
\* of a cyclic command: no send_command or read_all_commands of the host,
\* and no step of a firing in which send_command does not return.
C38_NextDueOnReturn ==
    [][ /\ (/\ ev'.op = "_read_cyclic_values" /\ ev'.t = "cyclic"
            /\ ev'.ret \in {"True", "False"})
            => /\ DOMAIN commands_cyclic' = DOMAIN commands_cyclic
               /\ \A k \in DOMAIN commands_cyclic :
                    IF commands_cyclic[k].cmd = ev'.command
                    THEN /\ commands_cyclic'[k].next
                              = outer["cyclic"].currenttime + commands_cyclic[k].cycle
                         /\ commands_cyclic'[k].next > outer["cyclic"].currenttime
                         /\ commands_cyclic'[k].cycle = commands_cyclic[k].cycle
                    ELSE commands_cyclic'[k] = commands_cyclic[k]
        /\ (commands_cyclic # <<>> /\ commands_cyclic' # commands_cyclic)
            => /\ ev'.op = "_read_cyclic_values" /\ ev'.t = "cyclic"
               /\ ev'.ret \in {"True", "False"}
        /\ ev'.op \in {"send_command", "read_all_commands"}
            => commands_cyclic' = commands_cyclic ]_vars

\* connection.send raised for a in a firing at time 0 that was still under
\* way at time 1: send_command returned False, and a is due again at 2
C38_FailedNotRetried ==
    /\ ev.op = "_read_cyclic_values" /\ ev.step = "answer" /\ ev.outcome = "raise"
    /\ ev.ret = "False" /\ ev.command = "a" /\ now = 1
    /\ commands_cyclic = <<Entry("a", 2, 2), Entry("b", 3, 0)>>

\* C39: on_data_received does the same on a device that is not alive as on
\* one that is: data for a named command that is decoded is handed to the
\* callback, if one is registered, once and with the device, the command and
\* the decoded value, whatever alive is; the call changes neither alive nor
\* the connection nor the scheduler.
C39_ReceivedWhateverAlive ==
    [][ ev'.op = "on_data_received"
        => /\ UNCHANGED <<alive, connected, connection, scheduler>>
           /\ \A a \in BOOLEAN :
                (/\ alive = a /\ ev'.command # ""
                 /\ ev'.outcome \in {"reply", "reply_callback_raises"})
                => /\ ev'.calls[Len(ev'.calls)] = "callback"
                        <=> data_received_callback
                   /\ data_received_callback
                        => /\ C12_Callbacks(ev') = 1
                           /\ ev'.args[1] = device_name
                           /\ ev'.args[2] = ev'.command
                           /\ ev'.command \in {"a", "b", "e", "p"}
                                => ev'.args[3] = <<Response>>
                   /\ ev'.exit = IF data_received_callback
                                    /\ ev'.outcome = "reply_callback_raises"
                                 THEN "raise" ELSE "return" ]_vars

\* data for a came in after the device had been started and stopped, and
\* the callback got the value
C39_DeliveredAfterStop ==
    /\ ev.op = "on_data_received" /\ ev.value = <<"a">> /\ ev.command = "a"
    /\ ev.calls = <<"get_shng_data", "callback">> /\ ev.args = <<"dev1", "a", <<"r">>>>
    /\ ~alive /\ ~connected /\ initial_values_read

\* data for a came in before the first start()
C39_DeliveredBeforeStart ==
    /\ ev.op = "on_data_received" /\ ev.value = <<"a">>
    /\ ev.calls = <<"get_shng_data", "callback">>
    /\ ~alive /\ ~initial_values_read /\ connection = 1

\* data for a came in on a running device
C39_DeliveredWhileAlive ==
    /\ ev.op = "on_data_received" /\ ev.value = <<"a">>
    /\ ev.calls = <<"get_shng_data", "callback">> /\ alive /\ connected

\* the token is no $P:key:
C40_NotP(tok) == tok.k # "P"

\* C40: _parse_str returns for every template, opcode and plugin
\* configuration, also for a configuration whose values hold $P:key: tokens
\* themselves; its result holds no $P:key: token, and with no key configured
\* and no value given the result is the string with the opcode for $C and
\* nothing for every $P:key:.
C40_SubstitutionTerminates ==
    applied.fn = "_parse_str"
        => /\ applied.returns
           /\ ~HasP(applied.result)
           /\ (applied.plugin = NoKwargs /\ applied.data = None)
                => applied.result
                    = SelectSeq(Replace(applied.string, "C", applied.opcode), C40_NotP)

====
